---- MODULE Spec2Model ----
(***************************************************************************)
(* Reactive runtime of velocity-wasm (crates/velocity-wasm/src/lib.rs):    *)
(* signals, effects, the CURRENT_EFFECT slot and the synchronous           *)
(* set -> run_effect notify cycle.  Effect bodies are JavaScript closures; *)
(* they are modelled as small programs over the public entry points        *)
(* (get, set, createEffect) and executed one instruction per step on an    *)
(* explicit call stack, so that re-entrant calls nest as they do in the    *)
(* code.                                                                   *)
(***************************************************************************)
EXTENDS Integers, Sequences, FiniteSets, TLC

\* ------------------------------------------------------------------ bounds
MaxSignals == 2
MaxEffects == 2
MaxDepth == 7
MaxVal == 1

\* ------------------------------------------------------- values and bodies
\* JsValue::UNDEFINED (read_signal of an unknown id) and the empty slot
Undefined == -1
None == -1
Val == 0..MaxVal

\* JavaScript truthiness of the modelled values (numbers; 0 is falsy)
Truthy(v) == v # Undefined /\ v # 0

\* Signal handles captured by the effect closures
SigA == 0
SigB == 1

Instr(op, s, v) == [op |-> op, s |-> s, v |-> v]
Get(s) == Instr("get", s, 0)
Put(s, v) == Instr("put", s, v)
PutAcc(s) == Instr("putacc", s, 0)
SkipIfFalsy == Instr("skipIfFalsy", 0, 0)
Throw == Instr("throw", 0, 0)
Create(b) == Instr("create", 0, b)

\* The closures handed to createEffect.  Each is a js_sys::Function; the
\* catalogue lists the shapes the runtime's contract speaks about.
ReaderBody == << Get(SigA) >>
CondBody == << Get(SigB), SkipIfFalsy, Get(SigA) >>
PingBody == << Get(SigA), PutAcc(SigB) >>
PongBody == << Get(SigB), PutAcc(SigA) >>
ThrowBody == << Get(SigA), Throw, Get(SigB) >>
WriteThenReadBody == << Put(SigB, 1), Get(SigA) >>
CreatorBody == << Create(1), Get(SigB) >>

\* Further shapes: a body that reads two signals, one that reads the same
\* signal twice, one that reads and then creates an effect, and one that
\* reads A and copies it to B when it is truthy.
ReadBothBody == << Get(SigA), Get(SigB) >>
TwiceBody == << Get(SigA), Get(SigA) >>
ReadThenCreateBody == << Get(SigA), Create(1) >>
GuardedPingBody == << Get(SigA), SkipIfFalsy, PutAcc(SigB) >>

Bodies ==
  << ReaderBody, CondBody, PingBody, PongBody, ThrowBody, WriteThenReadBody,
     CreatorBody, ReadBothBody, TwiceBody, ReadThenCreateBody,
     GuardedPingBody >>

BodyIds == 1..Len(Bodies)

\* the closures of the first catalogue
ContractBodyIds ==
  { b \in BodyIds :
      Bodies[b] \notin {ReadBothBody, TwiceBody, ReadThenCreateBody,
                        GuardedPingBody} }

\* closures that read twice, write, or create while an enclosing cycle runs
ShapeBodyIds ==
  { b \in BodyIds :
      Bodies[b] \in {TwiceBody, ReadBothBody, PingBody, PongBody, CondBody,
                     ReadThenCreateBody, GuardedPingBody} }

\* closures that only read: no set, no createEffect
ReadOnlyBodyIds ==
  { b \in BodyIds :
      \A k \in 1..Len(Bodies[b]) :
        Bodies[b][k].op \notin {"put", "putacc", "create"} }

\* signals a closure holds a handle to (they exist before it is created)
BodySignals(b) == { Bodies[b][k].s : k \in { j \in 1..Len(Bodies[b]) :
                      Bodies[b][j].op \in {"get", "put", "putacc"} } }

\* -------------------------------------------------------------------- state
VARIABLES
  next_signal_id,   \* Runtime.next_signal_id
  next_effect_id,   \* Runtime.next_effect_id
  signals,          \* Runtime.signals : id -> [value, subscribers]
  effects,          \* Runtime.effects : id -> [func, dependencies]
  current_effect,   \* CURRENT_EFFECT
  runtime_borrow,   \* borrow state of the RUNTIME RefCell
  panicked,         \* a RefCell borrow conflict aborted the program
  stack,            \* call stack of the calls in progress
  ret,              \* value returned by the last top-level call
  lastRead,         \* history: signals read by each effect's latest run
  overwritten,      \* history: set calls in progress whose signal was written again
  console,          \* console::error_2 "Effect error:": effect whose failure was logged last
  resource_cache,   \* RESOURCE_CACHE : key -> ResourceState
  tasks,            \* futures handed to spawn_local and not yet finished
  cache_ret,        \* [data, loading, error] array the step just taken returned, if any
  last_step,        \* history: the call or completion the step just taken was
  snapshot,         \* the object serializeState returned last, as shipped to the client
  instance,         \* which instance of the module is running: "server" or "client"
  dom,              \* the document: element -> its data-island and data-hydrate attributes
  scans,            \* hydration scans in progress: the islands each still has to hydrate
  hydrations,       \* history: how many times each element was hydrated by a scan
  island_ret,       \* value the hydration helper just called returned, if any
  handlers,         \* ERROR_BOUNDARY_HANDLERS
  handlers_borrow,  \* borrow state of the ERROR_BOUNDARY_HANDLERS RefCell
  boundary,         \* the guarded call in progress, if any
  handled,          \* history: the handlers the latest guarded call invoked, with their argument
  boundary_ret,     \* value the latest guarded call returned
  metrics           \* the counts the latest getMetrics call reported

\* a step that hands no array back to JavaScript
NoResult == << >>

\* serializeState has not been called yet
NoSnapshot == << >>

\* the elements of the document, in document order
Document == << "header", "sidebar" >>
Elements == { Document[n] : n \in 1..Len(Document) }

\* the island ids application code marks elements with, and the ids it hands
\* to hydrateRoot
IslandIds == {"counter"}
ContainerIds == {"header", "missing"}

\* Element::get_attribute returns None: the element has no such attribute
NoAttr == "(none)"

\* the scans application code runs over the islands
Scanners == {"scan1", "scan2"}

\* no guarded call is in progress
NoCall == << >>

\* the resource cache and its fetch tasks
cvars == << resource_cache, tasks, cache_ret, last_step >>

\* the hydration bridge
hvars == << snapshot, instance >>

\* the island markers of the document and the scans over them
ivars == << dom, scans, hydrations, island_ret >>

\* the error boundary layer
bvars == << handlers, handlers_borrow, boundary, handled, boundary_ret >>

\* the inspection surface
mvars == << metrics >>

\* everything outside the signal runtime and the resource cache
xvars == << hvars, ivars, bvars, mvars >>

vars == << next_signal_id, next_effect_id, signals, effects, current_effect,
           runtime_borrow, panicked, stack, ret, lastRead, overwritten,
           console, resource_cache, tasks, cache_ret, last_step,
           snapshot, instance, dom, scans, hydrations, island_ret,
           handlers, handlers_borrow, boundary, handled, boundary_ret,
           metrics >>

SignalIds == 0..(next_signal_id - 1)
EffectIds == 0..(next_effect_id - 1)

\* ---------------------------------------------------------- sequence helpers
Contains(seq, x) == \E k \in 1..Len(seq) : seq[k] = x
Range(seq) == { seq[k] : k \in 1..Len(seq) }

PushUnique_always(seq, x) == Append(seq, x)

\* Vec::push guarded by !contains (read_signal)
PushUnique(seq, x) == IF Contains(seq, x) THEN seq ELSE Append(seq, x)

\* Vec::retain(|&e| e != x)
RECURSIVE Retain(_, _)
Retain(seq, x) ==
  IF seq = << >> THEN << >>
  ELSE IF Head(seq) = x THEN Retain(Tail(seq), x)
       ELSE << Head(seq) >> \o Retain(Tail(seq), x)

\* ------------------------------------------------------ Runtime (pure parts)
\* Runtime::create_signal
CreateSignalState(sigs, n, v) ==
  [ i \in 0..n |-> IF i < n THEN sigs[i]
                   ELSE [value |-> v, subscribers |-> << >>] ]

\* Runtime::create_effect
CreateEffectState(effs, n, b) ==
  [ i \in 0..n |-> IF i < n THEN effs[i]
                   ELSE [func |-> b, dependencies |-> << >>] ]

\* Runtime::read_signal, the tracking part: signals after the read
ReadSignalSubs(sigs, cur, id) ==
  IF cur # None /\ id \in DOMAIN sigs
  THEN [sigs EXCEPT ![id].subscribers = PushUnique(@, cur)]
  ELSE sigs

\* Runtime::read_signal, the tracking part: effects after the read
ReadSignalDeps(effs, cur, id) ==
  IF cur # None /\ cur \in DOMAIN effs
  THEN [effs EXCEPT ![cur].dependencies = PushUnique(@, id)]
  ELSE effs

\* Runtime::read_signal, the returned value
ReadSignalValue(sigs, id) ==
  IF id \in DOMAIN sigs THEN sigs[id].value ELSE Undefined

\* variant: effects with a run in progress are left out of the captured list
WriteSignalSubscribers_noReentry(sigs, id) ==
  IF id \in DOMAIN sigs
  THEN SelectSeq(sigs[id].subscribers,
                 LAMBDA e : ~(\E p \in 1..Len(stack) :
                                stack[p].kind = "run" /\ stack[p].id = e))
  ELSE << >>

\* variant: effects an enclosing cycle has already captured are left out
WriteSignalSubscribers_batched(sigs, id) ==
  IF id \in DOMAIN sigs
  THEN SelectSeq(sigs[id].subscribers,
                 LAMBDA e : ~(\E p \in 1..Len(stack) :
                                /\ stack[p].kind = "set"
                                /\ \E k \in 1..Len(stack[p].subs) :
                                     stack[p].subs[k] = e))
  ELSE << >>

\* Runtime::write_signal, the captured subscriber list (taken first)
WriteSignalSubscribers(sigs, id) ==
  IF id \in DOMAIN sigs THEN sigs[id].subscribers ELSE << >>

\* variant: the value is not stored
WriteSignalState_dropped(sigs, id, v) == sigs

\* variant: the value is stored into every signal
WriteSignalState_all(sigs, id, v) ==
  [ s \in DOMAIN sigs |-> [sigs[s] EXCEPT !.value = v] ]

\* Runtime::write_signal, the signals after the write
WriteSignalState(sigs, id, v) ==
  IF id \in DOMAIN sigs THEN [sigs EXCEPT ![id].value = v] ELSE sigs

\* variant: the old subscriptions are kept
RunEffectClearSubs_stale(sigs, effs, id) == sigs

\* Runtime::run_effect, first block: drop the effect from the subscriber
\* list of every signal it depended on
RunEffectClearSubs(sigs, effs, id) ==
  IF id \in DOMAIN effs
  THEN [ s \in DOMAIN sigs |->
           IF Contains(effs[id].dependencies, s)
           THEN [sigs[s] EXCEPT !.subscribers = Retain(@, id)]
           ELSE sigs[s] ]
  ELSE sigs

\* Runtime::run_effect, first block: clear the effect's dependencies
RunEffectClearDeps(effs, id) ==
  IF id \in DOMAIN effs THEN [effs EXCEPT ![id].dependencies = << >>] ELSE effs

\* Runtime::run_effect: the context installed before the body is called
RunEffectContext(id) == id

\* variant: the context is not cleared
RunEffectExitContext_kept(cur) == cur

\* Runtime::run_effect: the context left behind when the run ends
RunEffectExitContext(cur) == None

\* variant: the body is called inside the borrow that clones the closure
BodyBorrow_held == "shared"

\* Runtime::run_effect: the RUNTIME borrow held while the body executes
\* (the closure is cloned out and called after the borrow is released)
BodyBorrow == "free"

\* ------------------------------------------------------------------- frames
SetFrame(id, v, subs) ==
  [kind |-> "set", id |-> id, v |-> v, subs |-> subs, i |-> 1, ran |-> << >>,
   pc |-> 0, acc |-> Undefined]

RunFrame(e) ==
  [kind |-> "run", id |-> e, v |-> 0, subs |-> << >>, i |-> 0, ran |-> << >>,
   pc |-> 1, acc |-> Undefined]

Idle == stack = << >>
Depth == Len(stack)
Top == stack[Depth]
Below == SubSeq(stack, 1, Depth - 1)

\* variant: a nested set queues its subscribers behind the enclosing cycle
StartCycle_deferred(stk, f) ==
  LET outer == { p \in 1..Len(stk) : stk[p].kind = "set" } IN
  IF outer = {} THEN Append(stk, f)
  ELSE LET q == CHOOSE p \in outer : \A r \in outer : r <= p IN
       Append([stk EXCEPT ![q].subs = @ \o f.subs], [f EXCEPT !.subs = << >>])

\* Signal::set hands the captured list to its own loop, which runs inside the
\* call: the cycle is a new innermost frame
StartCycle(stk, f) == Append(stk, f)

\* variant: the loop walks the captured list backwards
NextSubscriber_reversed(f) == f.subs[Len(f.subs) - f.i + 1]

\* Signal::set, `for effect_id in subscribers`: the effect the loop is at
NextSubscriber(f) == f.subs[f.i]

\* variant: the failure leaves the closure and unwinds every call in progress
AfterThrow_rethrown(stk, n) == << >>

\* the closure built by create_effect, `Err(e) => console::error_2(..)`: the
\* failure of a body of n instructions ends that body only; the closure
\* returns normally to run_effect
AfterThrow(stk, n) ==
  Append(SubSeq(stk, 1, Len(stk) - 1), [stk[Len(stk)] EXCEPT !.pc = n + 1])

\* the instruction a running body is at
BodyOf(f) == Bodies[effects[f.id].func]
AtInstr(op) ==
  /\ ~Idle /\ Top.kind = "run" /\ Top.pc <= Len(BodyOf(Top))
  /\ BodyOf(Top)[Top.pc].op \in op
CurInstr == BodyOf(Top)[Top.pc]

\* RefCell::borrow_mut on RUNTIME succeeds only when nothing is borrowed
CanBorrowMut == runtime_borrow = "free"

\* history bookkeeping: positions of the set calls in progress on signal id
SetsInProgressOn(stk, id) ==
  { p \in 1..Len(stk) : stk[p].kind = "set" /\ stk[p].id = id }


\* --------------------------------------------------------------------- Init
\* Runtime::new(), CURRENT_EFFECT = None, nothing borrowed, no call in progress
Init ==
  /\ next_signal_id = 0
  /\ next_effect_id = 0
  /\ signals = << >>
  /\ effects = << >>
  /\ current_effect = None
  /\ runtime_borrow = "free"
  /\ panicked = FALSE
  /\ stack = << >>
  /\ ret = Undefined
  /\ lastRead = << >>
  /\ overwritten = {}
  /\ console = None
  /\ resource_cache = << >>
  /\ tasks = << >>
  /\ cache_ret = NoResult
  /\ last_step = << >>
  /\ snapshot = NoSnapshot
  /\ instance = "server"
  /\ dom = [ e \in Elements |->
              [island |-> NoAttr, hydrate |-> NoAttr, hydrated |-> NoAttr] ]
  /\ scans = [ p \in Scanners |-> << >> ]
  /\ hydrations = [ e \in Elements |-> 0 ]
  /\ island_ret = NoResult
  /\ handlers = << >>
  /\ handlers_borrow = "free"
  /\ boundary = NoCall
  /\ handled = << >>
  /\ boundary_ret = Undefined
  /\ metrics = NoResult

\* a borrow_mut on an already borrowed RefCell panics (BorrowMutError)
BorrowPanic ==
  /\ panicked' = TRUE
  /\ UNCHANGED << next_signal_id, next_effect_id, signals, effects,
                  current_effect, runtime_borrow, stack, ret, lastRead,
                  overwritten >>

\* --------------------------------------------------- run_effect entry / exit
\* Runtime::run_effect(id) up to the call of the body: clear the old edges,
\* install the context, clone the closure; the body then runs as a new frame.
\* sigs/effs are the runtime state run_effect starts from, stk the stack the
\* new frame goes on.
EnterRun(sigs, effs, stk, id) ==
  /\ signals' = RunEffectClearSubs(sigs, effs, id)
  /\ effects' = RunEffectClearDeps(effs, id)
  /\ current_effect' = RunEffectContext(id)
  /\ runtime_borrow' = BodyBorrow
  /\ stack' = Append(stk, RunFrame(id))

\* ------------------------------------------------------- top-level entries
\* Signal::new / createSignal
CreateSignal(v) ==
  /\ Idle /\ ~panicked
  /\ UNCHANGED << console, cvars, xvars >>
  /\ next_signal_id < MaxSignals
  /\ IF CanBorrowMut
     THEN /\ signals' = CreateSignalState(signals, next_signal_id, v)
          /\ next_signal_id' = next_signal_id + 1
          /\ ret' = Undefined
          /\ UNCHANGED << next_effect_id, effects, current_effect,
                          runtime_borrow, panicked, stack, lastRead,
                          overwritten >>
     ELSE BorrowPanic

\* Signal::get called by application code outside any effect
GetTop(id) ==
  /\ Idle /\ ~panicked
  /\ UNCHANGED << console, cvars, xvars >>
  /\ id \in SignalIds
  /\ IF CanBorrowMut
     THEN /\ signals' = ReadSignalSubs(signals, current_effect, id)
          /\ effects' = ReadSignalDeps(effects, current_effect, id)
          /\ ret' = ReadSignalValue(signals, id)
          /\ UNCHANGED << next_signal_id, next_effect_id, current_effect,
                          runtime_borrow, panicked, stack, lastRead,
                          overwritten >>
     ELSE BorrowPanic

\* Signal::set called by application code outside any effect: write_signal,
\* then the loop over the captured subscribers starts
SetTop(id, v) ==
  /\ Idle /\ ~panicked
  /\ UNCHANGED << console, cvars, xvars >>
  /\ id \in SignalIds
  /\ IF CanBorrowMut
     THEN /\ signals' = WriteSignalState(signals, id, v)
          /\ stack' = StartCycle(stack,
                                 SetFrame(id, v, WriteSignalSubscribers(signals, id)))
          /\ overwritten' = overwritten \cup SetsInProgressOn(stack, id)
          /\ ret' = Undefined
          /\ UNCHANGED << next_signal_id, next_effect_id, effects,
                          current_effect, runtime_borrow, panicked, lastRead >>
     ELSE BorrowPanic

\* createEffect called by application code outside any effect: register the
\* closure, then run it at once
CreateEffectTop(b) ==
  /\ Idle /\ ~panicked
  /\ UNCHANGED << console, cvars, xvars >>
  /\ next_effect_id < MaxEffects
  /\ BodySignals(b) \subseteq SignalIds
  /\ IF CanBorrowMut
     THEN /\ EnterRun(signals,
                      CreateEffectState(effects, next_effect_id, b),
                      stack, next_effect_id)
          /\ next_effect_id' = next_effect_id + 1
          /\ lastRead' = [ e \in 0..next_effect_id |->
                             IF e < next_effect_id THEN lastRead[e] ELSE {} ]
          /\ ret' = Undefined
          /\ UNCHANGED << next_signal_id, panicked, overwritten >>
     ELSE BorrowPanic

\* ------------------------------------------------------- the notify cycle
\* variant: the loop skips a captured effect that is no longer subscribed
Notify_rechecked ==
  /\ ~Idle /\ ~panicked
  /\ UNCHANGED << console, cvars, xvars >>
  /\ Top.kind = "set" /\ Top.i <= Len(Top.subs)
  /\ Depth < MaxDepth
  /\ IF Contains(signals[Top.id].subscribers, NextSubscriber(Top))
     THEN /\ EnterRun(signals, effects,
                      Append(Below, [Top EXCEPT !.i = @ + 1,
                                                !.ran = Append(@, NextSubscriber(Top))]),
                      NextSubscriber(Top))
          /\ lastRead' = [lastRead EXCEPT ![NextSubscriber(Top)] = {}]
          /\ UNCHANGED << next_signal_id, next_effect_id, panicked, ret,
                          overwritten >>
     ELSE /\ stack' = Append(Below, [Top EXCEPT !.i = @ + 1])
          /\ UNCHANGED << next_signal_id, next_effect_id, signals, effects,
                          current_effect, runtime_borrow, panicked, ret,
                          lastRead, overwritten >>

\* Signal::set, one iteration of `for effect_id in subscribers`
Notify ==
  /\ ~Idle /\ ~panicked
  /\ UNCHANGED << console, cvars, xvars >>
  /\ Top.kind = "set" /\ Top.i <= Len(Top.subs)
  /\ Depth < MaxDepth
  /\ IF CanBorrowMut
     THEN /\ EnterRun(signals, effects,
                      Append(Below, [Top EXCEPT !.i = @ + 1,
                                                !.ran = Append(@, NextSubscriber(Top))]),
                      NextSubscriber(Top))
          /\ lastRead' = [lastRead EXCEPT ![NextSubscriber(Top)] = {}]
          /\ UNCHANGED << next_signal_id, next_effect_id, panicked, ret,
                          overwritten >>
     ELSE BorrowPanic

\* variant: set returns before its loop is exhausted
SetReturn_early ==
  /\ ~Idle /\ ~panicked
  /\ UNCHANGED << console, cvars, xvars >>
  /\ Top.kind = "set"
  /\ stack' = Below
  /\ overwritten' = overwritten \ {Depth}
  /\ UNCHANGED << next_signal_id, next_effect_id, signals, effects,
                  current_effect, runtime_borrow, panicked, ret, lastRead >>

\* Signal::set returns once the loop is exhausted
SetReturn ==
  /\ ~Idle /\ ~panicked
  /\ UNCHANGED << console, cvars, xvars >>
  /\ Top.kind = "set" /\ Top.i > Len(Top.subs)
  /\ stack' = Below
  /\ overwritten' = overwritten \ {Depth}
  /\ UNCHANGED << next_signal_id, next_effect_id, signals, effects,
                  current_effect, runtime_borrow, panicked, ret, lastRead >>

\* ------------------------------------------------------ effect body steps
\* the body calls get(): Signal::get -> Runtime::read_signal
BodyGet ==
  /\ ~panicked /\ AtInstr({"get"})
  /\ UNCHANGED << console, cvars, xvars >>
  /\ IF CanBorrowMut
     THEN /\ signals' = ReadSignalSubs(signals, current_effect, CurInstr.s)
          /\ effects' = ReadSignalDeps(effects, current_effect, CurInstr.s)
          /\ stack' = Append(Below,
                        [Top EXCEPT !.pc = @ + 1,
                                    !.acc = ReadSignalValue(signals, CurInstr.s)])
          /\ lastRead' = [lastRead EXCEPT ![Top.id] = @ \cup {CurInstr.s}]
          /\ UNCHANGED << next_signal_id, next_effect_id, current_effect,
                          runtime_borrow, panicked, ret, overwritten >>
     ELSE BorrowPanic

\* the body calls set(): Signal::set re-entered from inside a run
BodySet ==
  /\ ~panicked /\ AtInstr({"put", "putacc"})
  /\ UNCHANGED << console, cvars, xvars >>
  /\ Depth < MaxDepth
  /\ IF CanBorrowMut
     THEN LET id == CurInstr.s
              v == IF CurInstr.op = "put" THEN CurInstr.v ELSE Top.acc
          IN /\ signals' = WriteSignalState(signals, id, v)
             /\ stack' = StartCycle(Append(Below, [Top EXCEPT !.pc = @ + 1]),
                                    SetFrame(id, v, WriteSignalSubscribers(signals, id)))
             /\ overwritten' = overwritten \cup SetsInProgressOn(stack, id)
             /\ UNCHANGED << next_signal_id, next_effect_id, effects,
                             current_effect, runtime_borrow, panicked, ret,
                             lastRead >>
     ELSE BorrowPanic

\* a JavaScript conditional on the value read last
BodySkip ==
  /\ ~panicked /\ AtInstr({"skipIfFalsy"})
  /\ UNCHANGED << console, cvars, xvars >>
  /\ stack' = Append(Below, [Top EXCEPT !.pc = IF Truthy(Top.acc) THEN @ + 1
                                                 ELSE @ + 2])
  /\ UNCHANGED << next_signal_id, next_effect_id, signals, effects,
                  current_effect, runtime_borrow, panicked, ret, lastRead,
                  overwritten >>

\* the body throws: call0 returns Err, the closure built by create_effect
\* logs it and returns normally; the rest of the body is not executed
BodyThrow ==
  /\ ~panicked /\ AtInstr({"throw"})
  /\ stack' = AfterThrow(stack, Len(BodyOf(Top)))
  /\ console' = Top.id
  /\ UNCHANGED << cvars, xvars >>
  /\ UNCHANGED << next_signal_id, next_effect_id, signals, effects,
                  current_effect, runtime_borrow, panicked, ret, lastRead,
                  overwritten >>

\* the body calls createEffect(): register and run the new effect at once
BodyCreate ==
  /\ ~panicked /\ AtInstr({"create"})
  /\ UNCHANGED << console, cvars, xvars >>
  /\ Depth < MaxDepth
  /\ next_effect_id < MaxEffects
  /\ BodySignals(CurInstr.v) \subseteq SignalIds
  /\ IF CanBorrowMut
     THEN /\ EnterRun(signals,
                      CreateEffectState(effects, next_effect_id, CurInstr.v),
                      Append(Below, [Top EXCEPT !.pc = @ + 1]),
                      next_effect_id)
          /\ next_effect_id' = next_effect_id + 1
          /\ lastRead' = [ e \in 0..next_effect_id |->
                             IF e < next_effect_id THEN lastRead[e] ELSE {} ]
          /\ UNCHANGED << next_signal_id, panicked, ret, overwritten >>
     ELSE BorrowPanic

\* Runtime::run_effect after the body returned: clear the context
RunEffectExit ==
  /\ ~Idle /\ ~panicked
  /\ UNCHANGED << console, cvars, xvars >>
  /\ Top.kind = "run" /\ Top.pc > Len(BodyOf(Top))
  /\ current_effect' = RunEffectExitContext(current_effect)
  /\ runtime_borrow' = "free"
  /\ stack' = Below
  /\ UNCHANGED << next_signal_id, next_effect_id, signals, effects, panicked,
                  ret, lastRead, overwritten >>

Next ==
  \/ \E v \in Val : CreateSignal(v)
  \/ \E id \in SignalIds : GetTop(id)
  \/ \E id \in SignalIds, v \in Val : SetTop(id, v)
  \/ \E b \in ContractBodyIds : CreateEffectTop(b)
  \/ Notify
  \/ SetReturn
  \/ BodyGet
  \/ BodySet
  \/ BodySkip
  \/ BodyThrow
  \/ BodyCreate
  \/ RunEffectExit

Spec == Init /\ [][Next]_vars

\* ---------------------------------------------------------------- typing
TypeOK ==
  /\ next_signal_id \in 0..MaxSignals
  /\ next_effect_id \in 0..MaxEffects
  /\ DOMAIN signals = SignalIds
  /\ DOMAIN effects = EffectIds
  /\ current_effect \in EffectIds \cup {None}
  /\ Depth <= MaxDepth


\* ------------------------------------------------------------------ claims
IsCond(e) == Bodies[effects[e].func] = CondBody
IsPing(e) == Bodies[effects[e].func] = PingBody
IsPong(e) == Bodies[effects[e].func] = PongBody
Subscribed(e, s) == Contains(signals[s].subscribers, e)
Running(e) == \E p \in 1..Depth : stack[p].kind = "run" /\ stack[p].id = e

\* C1: whenever no run is in progress, e is subscribed to s exactly when e's
\* latest run read s, and e's dependency list holds exactly the signals that
\* run read.
C1_EdgesMatchLatestRun ==
  Idle =>
    \A e \in EffectIds :
      /\ \A s \in SignalIds : Subscribed(e, s) <=> s \in lastRead[e]
      /\ Range(effects[e].dependencies) = lastRead[e]

\* a step that enters Signal::set: a new set frame becomes the innermost one
SetEntered ==
  /\ Len(stack') = Depth + 1
  /\ stack'[Depth + 1].kind = "set"
  /\ stack'[Depth + 1].i = 1

\* a step that leaves Signal::set
SetReturned == ~Idle /\ Top.kind = "set" /\ Len(stack') = Depth - 1

\* C2: an effect whose body reads B and reads A only if B is truthy is, while
\* it is not running, subscribed to A exactly when its last run read A; when
\* no call is in progress its last run read A exactly when B is truthy; and a
\* set on A captures (and so re-runs) it exactly when its last run read A, so
\* never when that run saw B false and again after a run that saw B truthy.
C2_DynamicDependencies ==
  /\ [](\A e \in EffectIds :
          IsCond(e) =>
            /\ ~Running(e) => (Subscribed(e, SigA) <=> SigA \in lastRead[e])
            /\ ~Running(e) => Subscribed(e, SigB)
            /\ Idle => (SigA \in lastRead[e] <=> Truthy(signals[SigB].value)))
  /\ [][ (SetEntered /\ stack'[Depth + 1].id = SigA) =>
           \A e \in EffectIds :
             IsCond(e) =>
               (Contains(stack'[Depth + 1].subs, e) <=> SigA \in lastRead[e]) ]_vars

C2_Witness ==
  \E e \in EffectIds :
    /\ IsCond(e)
    /\ Depth = 1 /\ Top.kind = "set" /\ Top.id = SigA
    /\ ~Truthy(signals[SigB].value)
    /\ ~Contains(Top.subs, e)
    /\ Top.subs # << >>
    /\ lastRead[e] = {SigB}

\* C3: a set call whose signal no effect run wrote again holds the value it
\* stored: up to and at its return, reading the signal yields v.
C3_SetThenGet ==
  \A p \in 1..Depth :
    (stack[p].kind = "set" /\ p \notin overwritten) =>
      ReadSignalValue(signals, stack[p].id) = stack[p].v

C3_Witness ==
  /\ ~Idle /\ Top.kind = "set" /\ Top.i > Len(Top.subs)
  /\ Depth \notin overwritten
  /\ Len(Top.ran) >= 2
  /\ signals[Top.id].value = Top.v
  /\ \E s \in SignalIds : s # Top.id /\ signals[s].value # Top.v

\* C4: set captures the subscriber list as it was before the write, stores
\* the value and runs nothing itself; its loop has then run exactly the
\* captured effects, in captured order, one run each, when set returns.
C4_SetRunsCaptured ==
  /\ [](\A p \in 1..Depth :
          stack[p].kind = "set" =>
            /\ stack[p].ran = SubSeq(stack[p].subs, 1, stack[p].i - 1)
            /\ Cardinality(Range(stack[p].subs)) = Len(stack[p].subs))
  /\ [][ /\ SetEntered =>
              /\ stack'[Depth + 1].subs = signals[stack'[Depth + 1].id].subscribers
              /\ stack'[Depth + 1].ran = << >>
              /\ signals'[stack'[Depth + 1].id].value = stack'[Depth + 1].v
              /\ effects' = effects
              /\ current_effect' = current_effect
         /\ SetReturned => Top.ran = Top.subs ]_vars

C4_Witness ==
  /\ ~Idle /\ Top.kind = "set" /\ Top.i > Len(Top.subs)
  /\ Len(Top.subs) >= 2
  /\ Top.ran = Top.subs

\* C5: the slot holds at most one effect id, is none whenever no call is in
\* progress, and is none after every exit of a run, failed bodies included.
C5_SlotCleared ==
  /\ [](/\ current_effect \in EffectIds \cup {None}
        /\ Idle => current_effect = None)
  /\ [][ (~Idle /\ Top.kind = "run" /\ Len(stack') = Depth - 1) =>
           current_effect' = None ]_vars

C5_Witness ==
  /\ Idle
  /\ current_effect = None
  /\ \E e \in EffectIds :
       /\ Bodies[effects[e].func] = ThrowBody
       /\ lastRead[e] = {SigA}
  /\ \E s \in SignalIds : Len(signals[s].subscribers) >= 2

\* C6: no borrow of RUNTIME is held while a body executes, and no entry made
\* from inside a body, at any depth, meets a borrow conflict.
C6_NoBorrowConflict ==
  /\ ~panicked
  /\ (~Idle /\ Top.kind = "run") => runtime_borrow = "free"

C6_Witness ==
  /\ ~panicked
  /\ Cardinality({ p \in 1..Depth : stack[p].kind = "run" }) >= 3
  /\ Top.kind = "run" /\ Top.pc > 1 /\ Top.acc # Undefined

\* C7: while a nested call is in progress, every enclosing cycle stands
\* still: an outer set's loop position, captured list and runs change only
\* once everything nested inside it has returned.
C7_NestedCycleFirst ==
  [][ \A p \in 1..(Depth - 1) :
        stack[p].kind = "set" =>
          /\ Len(stack') >= p
          /\ stack'[p].kind = "set"
          /\ stack'[p].subs = stack[p].subs
          /\ stack'[p].i = stack[p].i
          /\ stack'[p].ran = stack[p].ran ]_vars

C7_Witness ==
  /\ Depth = 3
  /\ stack[1].kind = "set" /\ stack[1].i <= Len(stack[1].subs)
  /\ stack[2].kind = "run"
  /\ stack[3].kind = "set" /\ stack[3].ran # << >>
  /\ stack[3].i > Len(stack[3].subs)

\* C8: with an effect that reads A and writes B and one that reads B and
\* writes A both registered, a set on A that captured the former never
\* returns: its frame is never removed and nesting only stops at the bound
\* of the model.
DoomedSet(f) ==
  /\ f.kind = "set" /\ f.id = SigA
  /\ \E ea \in Range(f.subs) : IsPing(ea)
  /\ \E eb \in EffectIds : IsPong(eb)

C8_PingPongNeverReturns ==
  [][ \A p \in 1..Depth :
        DoomedSet(stack[p]) =>
          /\ Len(stack') >= p
          /\ stack'[p].kind = "set" /\ stack'[p].id = SigA ]_vars

C8_Witness ==
  /\ Depth = MaxDepth
  /\ Cardinality({ p \in 1..Depth : DoomedSet(stack[p]) }) >= 2
  /\ Cardinality({ p \in 1..Depth : stack[p].kind = "run" }) >= 3

\* C9: a set on a signal without subscribers stores the value and changes
\* nothing else: no other value, no subscriber or dependency list, no slot;
\* it returns without running an effect.
C9_SetWithoutSubscribers ==
  [][ /\ (SetEntered /\ stack'[Depth + 1].subs = << >>) =>
           LET id == stack'[Depth + 1].id IN
           /\ signals'[id].value = stack'[Depth + 1].v
           /\ signals' = [signals EXCEPT ![id].value = stack'[Depth + 1].v]
           /\ effects' = effects
           /\ current_effect' = current_effect
      /\ (~Idle /\ Top.kind = "set" /\ Top.subs = << >>) =>
           /\ stack' = Below
           /\ Top.ran = << >>
           /\ UNCHANGED << signals, effects, current_effect >> ]_vars

C9_Witness ==
  /\ Depth = 1 /\ Top.kind = "set" /\ Top.subs = << >>
  /\ next_effect_id > 0
  /\ signals[Top.id].value = Top.v
  /\ \E s \in SignalIds : s # Top.id /\ signals[s].subscribers # << >>
                          /\ signals[s].value # Top.v

\* C10: createEffect registers the effect and starts its one run at once; an
\* effect whose latest run read s is captured (so re-run) by every later
\* set(s, v), and the re-run reads v unless s was written again meanwhile.
C10_CreateThenRerun ==
  [][ /\ next_effect_id' # next_effect_id =>
           /\ next_effect_id' = next_effect_id + 1
           /\ DOMAIN effects' = 0..next_effect_id
           /\ stack'[Len(stack')] = RunFrame(next_effect_id)
      /\ (Idle /\ SetEntered) =>
           \A e \in EffectIds :
             stack'[1].id \in lastRead[e] => Contains(stack'[1].subs, e)
      /\ (AtInstr({"get"}) /\ Depth >= 2 /\ ~panicked') =>
           ((/\ stack[Depth - 1].kind = "set"
             /\ stack[Depth - 1].id = CurInstr.s
             /\ (Depth - 1) \notin overwritten)
            => stack'[Depth].acc = stack[Depth - 1].v) ]_vars

IsThrower(e) == Bodies[effects[e].func] = ThrowBody

\* C11: a failing body is logged and ends only its own run: no call in
\* progress is unwound, the run returns normally to the call that started it,
\* and the set that captured the failed effect runs it once and then the rest
\* of its captured list in order.
C11_FailureContained ==
  [][ /\ (AtInstr({"throw"}) /\ ~panicked) =>
           /\ Len(stack') = Depth
           /\ SubSeq(stack', 1, Depth - 1) = Below
           /\ stack'[Depth].kind = "run" /\ stack'[Depth].id = Top.id
           /\ stack'[Depth].pc = Len(BodyOf(Top)) + 1
           /\ console' = Top.id
      /\ (~Idle /\ Top.kind = "run" /\ IsThrower(Top.id) /\ stack' # stack) =>
           \/ Len(stack') = Depth /\ SubSeq(stack', 1, Depth - 1) = Below
           \/ stack' = Below /\ current_effect' = None
      /\ (SetReturned /\ \E e \in Range(Top.subs) : IsThrower(e)) =>
           /\ Top.ran = Top.subs
           /\ \A e \in Range(Top.subs) :
                Cardinality({ k \in 1..Len(Top.ran) : Top.ran[k] = e }) = 1 ]_vars

C11_Witness ==
  /\ ~Idle /\ Top.kind = "set" /\ Top.i > Len(Top.subs)
  /\ Len(Top.subs) = 2
  /\ IsThrower(Top.subs[1]) /\ ~IsThrower(Top.subs[2])
  /\ Top.ran = Top.subs
  /\ console = Top.subs[1]
  /\ lastRead[Top.subs[2]] # {}

\* =========================================================================
\* Resource cache (createResource and friends)
\* =========================================================================
MaxTasks == 2
MaxHydrations == 2
\* longest registry of error handlers explored
MaxHandlers == 2

\* JsValue::NULL
Null == -2

\* cache keys and the fetcher functions application code passes in
Keys == {"a"}
Fetchers == {1, 2}

\* values js_sys::Date::now() returns (system time, not monotonic)
Times == {1, 2}

\* the values application code hands to setResourceOptimistic
OptimisticValues == {0}

\* the value the promise of fetcher f resolves to
FetchData(f) == 100 + f

\* format!("{:?}", err) of the value fetcher f throws or rejects with
ErrMsg(f) == 200 + f

\* the signal runtime, untouched by the cache
rvars == << next_signal_id, next_effect_id, signals, effects, current_effect,
            runtime_borrow, panicked, stack, ret, lastRead, overwritten,
            console >>

\* ResourceState inserted by create_resource for an absent key
LoadingState(fetcher, now) ==
  [data |-> Null, loading |-> TRUE, error |-> None, timestamp |-> now,
   refetch_fn |-> fetcher]

\* the [data, loading, error] array built from an entry
TripleOf(state) ==
  << state.data, state.loading,
     IF state.error = None THEN Null ELSE state.error >>

\* the array create_resource returns after inserting the loading entry
LoadingTriple == << Null, TRUE, Null >>

\* the array get_resource_state returns for an absent key
AbsentTriple == << Null, FALSE, Null >>

\* HashMap::insert
CacheInsert(cache, key, state) ==
  [ k \in (DOMAIN cache) \cup {key} |-> IF k = key THEN state ELSE cache[k] ]

CacheRemove_kept(cache, key) == cache

\* HashMap::remove
CacheRemove(cache, key) ==
  [ k \in (DOMAIN cache) \ {key} |-> cache[k] ]

InvalidateTasks_cancelled(tsks, key) ==
  SelectSeq(tsks, LAMBDA t : t.key # key)

\* invalidate_resource: the spawned futures after the call (it has no handle
\* on them)
InvalidateTasks(tsks, key) == tsks

\* create_resource: the cache after the call
CreateResourceCache(cache, key, fetcher, now) ==
  IF key \in DOMAIN cache THEN cache
  ELSE CacheInsert(cache, key, LoadingState(fetcher, now))

CreateResourceTasks_always(cache, tsks, key, fetcher) ==
  Append(tsks, [key |-> key, fetcher |-> fetcher, stage |-> "spawned"])

CreateResourceTasks_never(cache, tsks, key, fetcher) == tsks

\* create_resource: the task queue after the call (spawn_local on a miss)
CreateResourceTasks(cache, tsks, key, fetcher) ==
  IF key \in DOMAIN cache THEN tsks
  ELSE Append(tsks, [key |-> key, fetcher |-> fetcher, stage |-> "spawned"])

\* create_resource: the returned array
CreateResourceResult(cache, key) ==
  IF key \in DOMAIN cache THEN TripleOf(cache[key]) ELSE LoadingTriple

CompleteOk_upsert(cache, key, data, now) ==
  CacheInsert(cache, key,
              [data |-> data, loading |-> FALSE, error |-> None,
               timestamp |-> now, refetch_fn |-> None])

CompleteOk_loading(cache, key, data, now) ==
  IF key \in DOMAIN cache
  THEN [cache EXCEPT ![key] = [@ EXCEPT !.data = data, !.error = None,
                                        !.timestamp = now]]
  ELSE cache

CompleteOk_everyKey(cache, key, data, now) ==
  IF key \in DOMAIN cache
  THEN [ k \in DOMAIN cache |->
           IF k = key
           THEN [cache[k] EXCEPT !.data = data, !.loading = FALSE,
                                 !.error = None, !.timestamp = now]
           ELSE [cache[k] EXCEPT !.loading = FALSE] ]
  ELSE cache

\* the spawned future, Ok(data) arm
CompleteOk(cache, key, data, now) ==
  IF key \in DOMAIN cache
  THEN [cache EXCEPT ![key] = [@ EXCEPT !.data = data, !.loading = FALSE,
                                        !.error = None, !.timestamp = now]]
  ELSE cache

CompleteErr_dropped(cache, key, msg, now) == cache

CompleteErr_loading(cache, key, msg, now) ==
  IF key \in DOMAIN cache
  THEN [cache EXCEPT ![key] = [@ EXCEPT !.error = msg, !.timestamp = now]]
  ELSE cache

\* the spawned future, Err(err) arm
CompleteErr(cache, key, msg, now) ==
  IF key \in DOMAIN cache
  THEN [cache EXCEPT ![key] = [@ EXCEPT !.loading = FALSE, !.error = msg,
                                        !.timestamp = now]]
  ELSE cache

RefetchFetcher_none(cache, key) == None

\* refetch_resource: the fetcher it finds (Option)
RefetchFetcher(cache, key) ==
  IF key \in DOMAIN cache THEN cache[key].refetch_fn ELSE None

OptimisticCache_ready(cache, key, value) ==
  IF key \in DOMAIN cache
  THEN [cache EXCEPT ![key].data = value, ![key].loading = FALSE]
  ELSE cache

\* set_resource_optimistic
OptimisticCache(cache, key, value) ==
  IF key \in DOMAIN cache THEN [cache EXCEPT ![key].data = value] ELSE cache

\* get_resource_state
ResourceStateOf(cache, key) ==
  IF key \in DOMAIN cache THEN TripleOf(cache[key]) ELSE AbsentTriple

\* a sequence without its i-th element
RemoveAt(seq, i) == SubSeq(seq, 1, i - 1) \o SubSeq(seq, i + 1, Len(seq))

\* spawn_local runs the queued futures in the order they were spawned
FirstSpawned(i) ==
  /\ i \in 1..Len(tasks)
  /\ tasks[i].stage = "spawned"
  /\ \A j \in 1..(i - 1) : tasks[j].stage # "spawned"

\* ------------------------------------------------------------ cache actions
\* createResource(key, fetcher)
CreateResource(key, fetcher, now) ==
  /\ key \notin DOMAIN resource_cache => Len(tasks) < MaxTasks
  /\ resource_cache' = CreateResourceCache(resource_cache, key, fetcher, now)
  /\ tasks' = CreateResourceTasks(resource_cache, tasks, key, fetcher)
  /\ cache_ret' = CreateResourceResult(resource_cache, key)
  /\ last_step' = << "createResource", key, fetcher >>
  /\ UNCHANGED << rvars, xvars >>

\* invalidateResource(key)
InvalidateResource(key) ==
  /\ resource_cache' = CacheRemove(resource_cache, key)
  /\ tasks' = InvalidateTasks(tasks, key)
  /\ cache_ret' = NoResult
  /\ last_step' = << "invalidateResource", key >>
  /\ UNCHANGED << rvars, xvars >>

\* refetchResource(key): invalidate_resource, then create_resource with the
\* retained fetcher, if there is one
RefetchResource(key, now) ==
  LET fetcher == RefetchFetcher(resource_cache, key)
      removed == CacheRemove(resource_cache, key)
  IN /\ fetcher # None => Len(tasks) < MaxTasks
     /\ IF fetcher # None
        THEN /\ resource_cache' = CreateResourceCache(removed, key, fetcher, now)
             /\ tasks' = CreateResourceTasks(removed, InvalidateTasks(tasks, key),
                                              key, fetcher)
        ELSE UNCHANGED << resource_cache, tasks >>
     /\ cache_ret' = NoResult
     /\ last_step' = << "refetchResource", key >>
     /\ UNCHANGED << rvars, xvars >>

\* setResourceOptimistic(key, value)
SetResourceOptimistic(key, value) ==
  /\ resource_cache' = OptimisticCache(resource_cache, key, value)
  /\ cache_ret' = NoResult
  /\ last_step' = << "setResourceOptimistic", key, value >>
  /\ UNCHANGED << tasks, rvars, xvars >>

GetResourceState_revalidating(key) ==
  /\ cache_ret' = ResourceStateOf(resource_cache, key)
  /\ last_step' = << "getResourceState", key >>
  /\ tasks' = IF key \in DOMAIN resource_cache
              THEN Append(tasks, [key |-> key,
                                  fetcher |-> resource_cache[key].refetch_fn,
                                  stage |-> "spawned"])
              ELSE tasks
  /\ UNCHANGED << resource_cache, rvars, xvars >>

\* getResourceState(key)
GetResourceState(key) ==
  /\ cache_ret' = ResourceStateOf(resource_cache, key)
  /\ last_step' = << "getResourceState", key >>
  /\ UNCHANGED << resource_cache, tasks, rvars, xvars >>

\* clearResourceCache()
ClearResourceCache ==
  /\ resource_cache' = [ k \in {} |-> None ]
  /\ cache_ret' = NoResult
  /\ last_step' = << "clearResourceCache" >>
  /\ UNCHANGED << tasks, rvars, xvars >>

\* variant: a future whose entry is gone ends without calling the fetcher
TaskCallFetcher_guarded(i) ==
  /\ FirstSpawned(i)
  /\ tasks' = IF tasks[i].key \in DOMAIN resource_cache
              THEN [tasks EXCEPT ![i].stage = "awaiting"]
              ELSE RemoveAt(tasks, i)
  /\ cache_ret' = NoResult
  /\ last_step' = IF tasks[i].key \in DOMAIN resource_cache
                  THEN << "called", tasks[i].key, tasks[i].fetcher >>
                  ELSE << "dropped", tasks[i].key, tasks[i].fetcher >>
  /\ UNCHANGED << resource_cache, rvars, xvars >>

\* the spawned future is polled: call_async_fetcher calls the fetcher, which
\* returns a promise that is then awaited
TaskCallFetcher(i) ==
  /\ FirstSpawned(i)
  /\ tasks' = [tasks EXCEPT ![i].stage = "awaiting"]
  /\ cache_ret' = NoResult
  /\ last_step' = << "called", tasks[i].key, tasks[i].fetcher >>
  /\ UNCHANGED << resource_cache, rvars, xvars >>

\* the fetcher throws synchronously: call0 returns Err, `?` hands it to the
\* Err arm at once
TaskFetcherThrows(i, now) ==
  /\ FirstSpawned(i)
  /\ resource_cache' = CompleteErr(resource_cache, tasks[i].key,
                                   ErrMsg(tasks[i].fetcher), now)
  /\ tasks' = RemoveAt(tasks, i)
  /\ cache_ret' = NoResult
  /\ last_step' = << "threw", tasks[i].key, tasks[i].fetcher >>
  /\ UNCHANGED << rvars, xvars >>

TaskResolve_notifying(i, now) ==
  /\ i \in 1..Len(tasks) /\ tasks[i].stage = "awaiting"
  /\ resource_cache' = CompleteOk(resource_cache, tasks[i].key,
                                  FetchData(tasks[i].fetcher), now)
  /\ tasks' = RemoveAt(tasks, i)
  /\ cache_ret' = NoResult
  /\ last_step' = << "resolved", tasks[i].key, tasks[i].fetcher >>
  /\ stack' = IF next_effect_id > 0 THEN << RunFrame(0) >> ELSE stack
  /\ UNCHANGED << next_signal_id, next_effect_id, signals, effects,
                  current_effect, runtime_borrow, panicked, ret, lastRead,
                  overwritten, console, xvars >>

\* the awaited promise resolves
TaskResolve(i, now) ==
  /\ i \in 1..Len(tasks) /\ tasks[i].stage = "awaiting"
  /\ resource_cache' = CompleteOk(resource_cache, tasks[i].key,
                                  FetchData(tasks[i].fetcher), now)
  /\ tasks' = RemoveAt(tasks, i)
  /\ cache_ret' = NoResult
  /\ last_step' = << "resolved", tasks[i].key, tasks[i].fetcher >>
  /\ UNCHANGED << rvars, xvars >>

\* the awaited promise rejects
TaskReject(i, now) ==
  /\ i \in 1..Len(tasks) /\ tasks[i].stage = "awaiting"
  /\ resource_cache' = CompleteErr(resource_cache, tasks[i].key,
                                   ErrMsg(tasks[i].fetcher), now)
  /\ tasks' = RemoveAt(tasks, i)
  /\ cache_ret' = NoResult
  /\ last_step' = << "rejected", tasks[i].key, tasks[i].fetcher >>
  /\ UNCHANGED << rvars, xvars >>

CacheNext ==
  \/ \E key \in Keys : \E fetcher \in Fetchers : \E now \in Times :
       CreateResource(key, fetcher, now)
  \/ \E key \in Keys : InvalidateResource(key)
  \/ \E key \in Keys : \E now \in Times : RefetchResource(key, now)
  \/ \E key \in Keys : \E value \in OptimisticValues : SetResourceOptimistic(key, value)
  \/ \E key \in Keys : GetResourceState(key)
  \/ ClearResourceCache
  \/ \E i \in 1..MaxTasks : TaskCallFetcher(i)
  \/ \E i \in 1..MaxTasks : \E now \in Times : TaskFetcherThrows(i, now)
  \/ \E i \in 1..MaxTasks : \E now \in Times : TaskResolve(i, now)
  \/ \E i \in 1..MaxTasks : \E now \in Times : TaskReject(i, now)

SpecCache == Init /\ [][CacheNext]_vars

CacheTypeOK ==
  /\ DOMAIN resource_cache \subseteq Keys
  /\ Len(tasks) <= MaxTasks
  /\ \A k \in DOMAIN resource_cache : resource_cache[k].timestamp \in Times

\* ------------------------------------------------------------ cache claims
\* the fetches dispatched for a key that have not completed yet
InFlight(key) == { i \in 1..Len(tasks) : tasks[i].key = key }

\* the future spawn_local is handed by a miss
Spawned(key, fetcher) == [key |-> key, fetcher |-> fetcher, stage |-> "spawned"]

\* C12: createResource on a key that has an entry, whatever its state, returns
\* that entry's (data, loading, error) and dispatches no fetch: the cache and
\* the queue of fetches are unchanged, so the fetcher is not invoked for it.
C12_CachedEntryReturned ==
  [][ \A key \in Keys, fetcher \in Fetchers, now \in Times :
        (key \in DOMAIN resource_cache /\ CreateResource(key, fetcher, now)) =>
          /\ cache_ret' = TripleOf(resource_cache[key])
          /\ tasks' = tasks
          /\ resource_cache' = resource_cache ]_vars

C12_Witness ==
  \E key \in Keys, fetcher \in Fetchers :
    /\ last_step = << "createResource", key, fetcher >>
    /\ key \in DOMAIN resource_cache
    /\ resource_cache[key].loading
    /\ resource_cache[key].refetch_fn # fetcher
    /\ cache_ret = TripleOf(resource_cache[key])
    /\ \E i \in 1..Len(tasks) : /\ InFlight(key) = {i}
                               /\ tasks[i].stage = "awaiting"

\* C13: invalidateResource(key) leaves the key without an entry; the key stays
\* absent until a createResource(key, fetcher), which inserts a fresh loading
\* entry and dispatches the fetcher anew.
C13_InvalidateThenRequest ==
  [][ \A key \in Keys :
        /\ InvalidateResource(key) =>
             /\ key \notin DOMAIN resource_cache'
             /\ tasks' = tasks
        /\ (key \notin DOMAIN resource_cache /\ key \in DOMAIN resource_cache') =>
             \E fetcher \in Fetchers, now \in Times :
               /\ CreateResource(key, fetcher, now)
               /\ resource_cache'[key] = LoadingState(fetcher, now)
               /\ tasks' = Append(tasks, Spawned(key, fetcher)) ]_vars

C13_Witness ==
  \E key \in Keys :
    /\ key \in DOMAIN resource_cache
    /\ Len(tasks) = 2
    /\ tasks[1].key = key /\ tasks[2].key = key
    /\ tasks[1].fetcher # tasks[2].fetcher
    /\ tasks[2].stage = "spawned"
    /\ last_step = << "createResource", key, tasks[2].fetcher >>
    /\ resource_cache[key] \in { LoadingState(tasks[2].fetcher, now) : now \in Times }

\* C14: createResource on an absent key inserts a loading entry and returns
\* (null, true, null); when a fetch of the key resolves with d while the key
\* has an entry, the entry reads (d, false, null), and getResourceState
\* returns what the entry reads.
C14_LoadingThenReady ==
  [][ /\ \A key \in Keys, fetcher \in Fetchers, now \in Times :
           (key \notin DOMAIN resource_cache /\ CreateResource(key, fetcher, now)) =>
             /\ cache_ret' = << Null, TRUE, Null >>
             /\ key \in DOMAIN resource_cache'
             /\ resource_cache'[key].loading
             /\ resource_cache'[key].data = Null
      /\ \A i \in 1..Len(tasks), now \in Times :
           (TaskResolve(i, now) /\ tasks[i].key \in DOMAIN resource_cache) =>
             ResourceStateOf(resource_cache', tasks[i].key) =
               << FetchData(tasks[i].fetcher), FALSE, Null >>
      /\ \A key \in Keys :
           (GetResourceState(key) /\ key \in DOMAIN resource_cache) =>
             cache_ret' = << resource_cache[key].data, resource_cache[key].loading,
                             IF resource_cache[key].error = None THEN Null
                             ELSE resource_cache[key].error >> ]_vars

C14_Witness ==
  \E key \in Keys, fetcher \in Fetchers :
    /\ key \in DOMAIN resource_cache
    /\ resource_cache[key].refetch_fn = fetcher
    /\ resource_cache[key].data = FetchData(fetcher)
    /\ last_step = << "getResourceState", key >>
    /\ cache_ret = << FetchData(fetcher), FALSE, Null >>
    /\ InFlight(key) = {}

\* the three states of an entry
IsLoading(state) == state.loading
IsError(state) == state.error # None
IsReady(state) == ~state.loading /\ state.error = None

\* C15: every entry of the cache is in exactly one of the states loading,
\* error and ready: the loading flag and an error message never hold together.
C15_OneStatePerEntry ==
  \A key \in DOMAIN resource_cache :
    LET state == resource_cache[key] IN
    /\ ~(IsLoading(state) /\ IsError(state))
    /\ Cardinality({ b \in { <<1, IsLoading(state)>>, <<2, IsError(state)>>,
                             <<3, IsReady(state)>> } : b[2] }) = 1

C15_Witness ==
  \E key \in Keys :
    /\ key \in DOMAIN resource_cache
    /\ IsError(resource_cache[key])
    /\ resource_cache[key].data \in OptimisticValues
    /\ InFlight(key) # {}

\* the i-th fetch in flight finishes in this step, successfully or not
Completes(i) ==
  \E now \in Times : TaskResolve(i, now) \/ TaskReject(i, now)
                     \/ TaskFetcherThrows(i, now)

\* C16: invalidateResource (alone or within refetchResource) leaves the
\* fetches in flight alone, and a fetch that completes writes its result into
\* whatever entry its key has by then, whichever request created that entry:
\* the entry stops loading and is ready with the completing fetcher's data or
\* in error with its message, so the last fetch to complete decides.
C16_CompletionCollides ==
  [][ /\ \A key \in Keys :
           /\ InvalidateResource(key) => tasks' = tasks
           /\ \A now \in Times :
                RefetchResource(key, now) =>
                  SubSeq(tasks', 1, Len(tasks)) = tasks
      /\ \A i \in 1..Len(tasks) :
           (Completes(i) /\ tasks[i].key \in DOMAIN resource_cache) =>
             LET after == resource_cache'[tasks[i].key] IN
             /\ ~after.loading
             /\ after.refetch_fn = resource_cache[tasks[i].key].refetch_fn
             /\ \/ IsReady(after) /\ after.data = FetchData(tasks[i].fetcher)
                \/ IsError(after) /\ after.error = ErrMsg(tasks[i].fetcher) ]_vars

C16_Witness ==
  \E key \in Keys, old \in Fetchers :
    /\ key \in DOMAIN resource_cache
    /\ ~resource_cache[key].loading
    /\ resource_cache[key].data = FetchData(old)
    /\ resource_cache[key].refetch_fn # old
    /\ last_step = << "resolved", key, old >>
    /\ \E i \in 1..Len(tasks) :
         /\ InFlight(key) = {i}
         /\ tasks[i].fetcher = resource_cache[key].refetch_fn

\* C17 as stated: a fetch that completes when its key has no entry (the entry
\* was removed while the fetch was in flight and no request recreated it)
\* puts an entry for the key back into the cache.
C17_ResolutionRepopulates ==
  [][ \A i \in 1..Len(tasks) :
        (Completes(i) /\ tasks[i].key \notin DOMAIN resource_cache) =>
          tasks[i].key \in DOMAIN resource_cache' ]_vars

\* C17: a fetch that completes when its key has no entry is discarded: the
\* cache is unchanged, the key still has no entry, and the fetch is over.
C17_ResolutionDiscarded ==
  [][ \A i \in 1..Len(tasks) :
        (Completes(i) /\ tasks[i].key \notin DOMAIN resource_cache) =>
          /\ resource_cache' = resource_cache
          /\ tasks[i].key \notin DOMAIN resource_cache'
          /\ Len(tasks') = Len(tasks) - 1 ]_vars

C17_Witness ==
  \E key \in Keys, fetcher \in Fetchers :
    /\ \/ last_step = << "resolved", key, fetcher >>
       \/ last_step = << "rejected", key, fetcher >>
    /\ key \notin DOMAIN resource_cache
    /\ InFlight(key) = {}

\* the i-th fetch in flight fails in this step: its promise rejects or the
\* fetcher throws when called
Fails(i, now) == TaskReject(i, now) \/ TaskFetcherThrows(i, now)

\* C18: a fetcher failure reaches no caller: the step returns nothing, leaves
\* the signal runtime alone and, if the key has an entry, stores the message
\* in its error field with loading = false and the data as it was. A
\* createResource on a key whose entry holds an error returns (data, false,
\* message), dispatches nothing and leaves the entry in error.
C18_FailureStored ==
  [][ /\ \A i \in 1..Len(tasks), now \in Times :
           Fails(i, now) =>
             /\ cache_ret' = NoResult
             /\ UNCHANGED rvars
             /\ tasks[i].key \in DOMAIN resource_cache =>
                  resource_cache' =
                    [resource_cache EXCEPT ![tasks[i].key] =
                       [@ EXCEPT !.loading = FALSE,
                                 !.error = ErrMsg(tasks[i].fetcher),
                                 !.timestamp = now]]
      /\ \A key \in Keys, fetcher \in Fetchers, now \in Times :
           ( /\ key \in DOMAIN resource_cache
             /\ IsError(resource_cache[key])
             /\ CreateResource(key, fetcher, now) ) =>
               /\ cache_ret' = << resource_cache[key].data, FALSE,
                                  resource_cache[key].error >>
               /\ tasks' = tasks
               /\ resource_cache'[key] = resource_cache[key] ]_vars

C18_Witness ==
  \E key \in Keys, fetcher \in Fetchers :
    /\ key \in DOMAIN resource_cache
    /\ resource_cache[key].error = ErrMsg(fetcher)
    /\ resource_cache[key].refetch_fn = fetcher
    /\ last_step \in { << "createResource", key, f >> : f \in Fetchers }
    /\ cache_ret = << Null, FALSE, ErrMsg(fetcher) >>
    /\ tasks = << >>

\* C19: every entry retains the fetcher of the request that created it;
\* refetchResource(key) on a key with an entry replaces the entry by a fresh
\* loading entry (null data, no error) for that fetcher and dispatches exactly
\* one new fetch with it, leaving the fetches in flight alone; on a key
\* without an entry it changes neither the cache nor the fetches.
C19_RefetchReRequests ==
  [][ \A key \in Keys, now \in Times :
        /\ key \in DOMAIN resource_cache =>
             resource_cache[key].refetch_fn \in Fetchers
        /\ (RefetchResource(key, now) /\ key \in DOMAIN resource_cache) =>
             LET retained == resource_cache[key].refetch_fn IN
             /\ resource_cache' =
                  [resource_cache EXCEPT ![key] =
                     [data |-> Null, loading |-> TRUE, error |-> None,
                      timestamp |-> now, refetch_fn |-> retained]]
             /\ tasks' = Append(tasks, Spawned(key, retained))
        /\ (RefetchResource(key, now) /\ key \notin DOMAIN resource_cache) =>
             /\ resource_cache' = resource_cache
             /\ tasks' = tasks ]_vars

C19_Witness ==
  \E key \in Keys :
    /\ last_step = << "refetchResource", key >>
    /\ key \in DOMAIN resource_cache
    /\ resource_cache[key].loading /\ resource_cache[key].data = Null
    /\ Len(tasks) = 2
    /\ tasks[1].key = key /\ tasks[1].stage = "awaiting"
    /\ tasks[2] = Spawned(key, resource_cache[key].refetch_fn)

\* C20: setResourceOptimistic(key, value) on a key with an entry replaces the
\* entry's data and nothing else (loading, error, timestamp and the retained
\* fetcher stay) and dispatches no fetch; on a key without an entry it
\* creates none.
C20_OptimisticDataOnly ==
  [][ \A key \in Keys, value \in OptimisticValues :
        SetResourceOptimistic(key, value) =>
          /\ tasks' = tasks
          /\ DOMAIN resource_cache' = DOMAIN resource_cache
          /\ key \in DOMAIN resource_cache =>
               LET before == resource_cache[key]
                   after == resource_cache'[key] IN
               /\ after.data = value
               /\ after.loading = before.loading
               /\ after.error = before.error
               /\ after.timestamp = before.timestamp
               /\ after.refetch_fn = before.refetch_fn ]_vars

C20_Witness ==
  \E key \in Keys, value \in OptimisticValues :
    /\ last_step = << "setResourceOptimistic", key, value >>
    /\ key \in DOMAIN resource_cache
    /\ resource_cache[key].data = value
    /\ resource_cache[key].loading
    /\ InFlight(key) # {}

\* C21: getResourceState dispatches no fetch and leaves the cache as it is;
\* for a key without an entry it returns (null, false, null) and creates no
\* entry. The fetches in flight grow only by a createResource that finds its
\* key absent, called directly or by refetchResource on a key with an entry.
C21_ReadDispatchesNothing ==
  [][ /\ \A key \in Keys :
           GetResourceState(key) =>
             /\ tasks' = tasks
             /\ resource_cache' = resource_cache
             /\ key \notin DOMAIN resource_cache =>
                  cache_ret' = << Null, FALSE, Null >>
      /\ Len(tasks') > Len(tasks) =>
           \E key \in Keys, now \in Times :
             \/ \E fetcher \in Fetchers :
                  /\ key \notin DOMAIN resource_cache
                  /\ CreateResource(key, fetcher, now)
                  /\ tasks' = Append(tasks, Spawned(key, fetcher))
             \/ /\ key \in DOMAIN resource_cache
                /\ RefetchResource(key, now)
                /\ tasks' = Append(tasks, Spawned(key, resource_cache[key].refetch_fn)) ]_vars

C21_Witness ==
  \E key \in Keys :
    /\ last_step = << "getResourceState", key >>
    /\ key \notin DOMAIN resource_cache
    /\ cache_ret = << Null, FALSE, Null >>
    /\ InFlight(key) # {}

\* ------------------------------------------- the store and the cache together
\* An application with one signal and one effect reading it, which also uses
\* the resource cache.  Application code and the completions of spawned
\* futures run only when no call is in progress (single-threaded event loop).
AppNext ==
  \/ \E v \in Val : next_signal_id = SigA /\ CreateSignal(v)
  \/ \E v \in Val : SetTop(SigA, v)
  \/ \E b \in BodyIds :
       next_effect_id = 0 /\ Bodies[b] = ReaderBody /\ CreateEffectTop(b)
  \/ Notify
  \/ SetReturn
  \/ BodyGet
  \/ RunEffectExit
  \/ Idle /\ CacheNext

SpecApp == Init /\ [][AppNext]_vars

\* C22: no cache operation (request, fetch completion, invalidate, refetch,
\* setOptimistic, clear, read) runs an effect or changes a signal value, a
\* subscriber list or a dependency list: the signal runtime is as it was, and
\* no call is in progress afterwards.
C22_CacheNotWired ==
  [][ CacheNext =>
        /\ signals' = signals
        /\ effects' = effects
        /\ current_effect' = current_effect
        /\ lastRead' = lastRead
        /\ stack' = << >>
        /\ UNCHANGED << next_signal_id, next_effect_id, panicked, console >> ]_vars

C22_Witness ==
  \E key \in Keys, fetcher \in Fetchers :
    /\ last_step = << "resolved", key, fetcher >>
    /\ key \in DOMAIN resource_cache
    /\ resource_cache[key].data = FetchData(fetcher)
    /\ Idle
    /\ next_effect_id = 1
    /\ lastRead[0] = {SigA}
    /\ Subscribed(0, SigA)

\* --------------------------------------------------------- hydration bridge
\* format!("{}", id): the decimal digits of an id
RECURSIVE ToDigits(_)
ToDigits(n) == IF n < 10 THEN << n >> ELSE Append(ToDigits(n \div 10), n % 10)

\* str::parse::<usize>: the number a sequence of decimal digits denotes
RECURSIVE FromDigits(_)
FromDigits(d) ==
  IF Len(d) = 1 THEN d[1]
  ELSE 10 * FromDigits(SubSeq(d, 1, Len(d) - 1)) + d[Len(d)]

\* format!("signal_{}", id): the property name a signal is serialized under
SignalKey(id) == << "signal_" >> \o ToDigits(id)

ParseSignalKey_unstripped(key) == None

\* key.strip_prefix("signal_") and id_str.parse::<usize>(): the id a property
\* name denotes, if any
ParseSignalKey(key) ==
  IF Len(key) > 1 /\ key[1] = "signal_" THEN FromDigits(Tail(key)) ELSE None

\* serialize_state: the "signals" object
SerializedSignals(sigs) ==
  [ k \in { SignalKey(id) : id \in DOMAIN sigs } |->
      sigs[CHOOSE id \in DOMAIN sigs : SignalKey(id) = k].value ]

SerializedResources_withError(cache) ==
  [ key \in DOMAIN cache |->
      [data |-> cache[key].data, loading |-> cache[key].loading,
       error |-> cache[key].error] ]

\* serialize_state: the "resources" object
SerializedResources(cache) ==
  [ key \in DOMAIN cache |->
      [data |-> cache[key].data, loading |-> cache[key].loading] ]

\* serialize_state: the object returned
SnapshotOf(sigs, cache) ==
  [signals |-> SerializedSignals(sigs), resources |-> SerializedResources(cache)]

RestoredSignals_created(sigs, snap) ==
  [ id \in DOMAIN sigs \cup { ParseSignalKey(k) : k \in DOMAIN snap.signals } |->
      IF SignalKey(id) \in DOMAIN snap.signals
      THEN [value |-> snap.signals[SignalKey(id)], subscribers |-> << >>]
      ELSE sigs[id] ]

\* deserialize_state: the store after deserialize_signal_state was called for
\* every property of the "signals" object that names an id
RestoredSignals(sigs, snap) ==
  [ id \in DOMAIN sigs |->
      LET named == { k \in DOMAIN snap.signals : ParseSignalKey(k) = id } IN
      IF named = {} THEN sigs[id]
      ELSE [sigs[id] EXCEPT !.value = snap.signals[CHOOSE k \in named : TRUE]] ]

\* deserialize_state: the cache afterwards (the "resources" object is not read)
RestoredResources(cache, snap) == cache

\* serializeState()
SerializeState ==
  /\ Idle /\ ~panicked
  /\ snapshot' = SnapshotOf(signals, resource_cache)
  /\ last_step' = << "serializeState" >>
  /\ cache_ret' = NoResult
  /\ UNCHANGED << rvars, resource_cache, tasks, instance, ivars, bvars, mvars >>

\* deserializeState(state), called with the snapshot the page carries
DeserializeState ==
  /\ Idle /\ ~panicked
  /\ snapshot # NoSnapshot
  /\ last_step' = << "deserializeState" >>
  /\ cache_ret' = NoResult
  /\ resource_cache' = RestoredResources(resource_cache, snapshot)
  /\ UNCHANGED << console, tasks, hvars, ivars, bvars, mvars >>
  /\ IF CanBorrowMut
     THEN /\ signals' = RestoredSignals(signals, snapshot)
          /\ UNCHANGED << next_signal_id, next_effect_id, effects,
                          current_effect, runtime_borrow, panicked, stack, ret,
                          lastRead, overwritten >>
     ELSE BorrowPanic

\* the page is shipped: a new instance of the module starts on the client
\* with an empty RUNTIME and an empty RESOURCE_CACHE; the snapshot travels
\* with the page
StartClient ==
  /\ instance = "server" /\ Idle /\ ~panicked
  /\ snapshot # NoSnapshot
  /\ instance' = "client"
  /\ next_signal_id' = 0
  /\ next_effect_id' = 0
  /\ signals' = << >>
  /\ effects' = << >>
  /\ current_effect' = None
  /\ runtime_borrow' = "free"
  /\ stack' = << >>
  /\ ret' = Undefined
  /\ lastRead' = << >>
  /\ overwritten' = {}
  /\ console' = None
  /\ resource_cache' = << >>
  /\ tasks' = << >>
  /\ cache_ret' = NoResult
  /\ last_step' = << "start" >>
  /\ UNCHANGED << panicked, snapshot, ivars, bvars, mvars >>

\* An application that is rendered on the server and hydrated on the client:
\* up to two signals, an effect reading the first, and a resource.
HydrationNext ==
  \/ \E v \in Val : next_signal_id \in {SigA, SigB} /\ CreateSignal(v)
  \/ \E b \in BodyIds :
       next_effect_id = 0 /\ Bodies[b] = ReaderBody /\ CreateEffectTop(b)
  \/ BodyGet
  \/ RunEffectExit
  \/ \E key \in Keys : \E fetcher \in Fetchers : \E now \in Times :
       Idle /\ CreateResource(key, fetcher, now)
  \/ \E i \in 1..MaxTasks : Idle /\ TaskCallFetcher(i)
  \/ \E i \in 1..MaxTasks : \E now \in Times : Idle /\ TaskResolve(i, now)
  \/ \E i \in 1..MaxTasks : \E now \in Times : Idle /\ TaskReject(i, now)
  \/ SerializeState
  \/ DeserializeState
  \/ StartClient

SpecHydration == Init /\ [][HydrationNext]_vars

HydrationTypeOK ==
  /\ instance \in {"server", "client"}
  /\ snapshot # NoSnapshot =>
       /\ \A k \in DOMAIN snapshot.signals : ParseSignalKey(k) \in 0..(MaxSignals - 1)
       /\ DOMAIN snapshot.resources \subseteq Keys

\* C23: serializeState returns an object that holds, under the name of each
\* live signal's id, that signal's current value, and for each cache entry
\* exactly its data and its loading flag (no error); the store and the cache
\* are as they were.
C23_SnapshotContents ==
  [][ SerializeState =>
        /\ DOMAIN snapshot'.signals = { SignalKey(id) : id \in DOMAIN signals }
        /\ \A id \in DOMAIN signals :
             snapshot'.signals[SignalKey(id)] = signals[id].value
        /\ DOMAIN snapshot'.resources = DOMAIN resource_cache
        /\ \A key \in DOMAIN resource_cache :
             /\ DOMAIN snapshot'.resources[key] = {"data", "loading"}
             /\ snapshot'.resources[key].data = resource_cache[key].data
             /\ snapshot'.resources[key].loading = resource_cache[key].loading
        /\ UNCHANGED << signals, effects, resource_cache, tasks >> ]_vars

C23_Witness ==
  \E key \in Keys :
    /\ last_step = << "serializeState" >>
    /\ next_signal_id = 2
    /\ signals[SigA].value # signals[SigB].value
    /\ key \in DOMAIN resource_cache
    /\ IsError(resource_cache[key])
    /\ snapshot.resources[key] = [data |-> Null, loading |-> FALSE]
    /\ snapshot.signals[SignalKey(SigB)] = signals[SigB].value

\* C24: deserializeState gives each signal of the store that the snapshot
\* names the snapshot's value and does nothing else: signals the snapshot does
\* not name keep their value, ids only the snapshot names create no signal,
\* subscriber and dependency lists stay, and no effect is run.
C24_RestoreBypassesWrite ==
  [][ DeserializeState =>
        /\ DOMAIN signals' = DOMAIN signals
        /\ \A id \in DOMAIN signals :
             /\ signals'[id].value =
                  IF SignalKey(id) \in DOMAIN snapshot.signals
                  THEN snapshot.signals[SignalKey(id)]
                  ELSE signals[id].value
             /\ signals'[id].subscribers = signals[id].subscribers
        /\ effects' = effects
        /\ lastRead' = lastRead
        /\ stack' = << >>
        /\ UNCHANGED << next_signal_id, next_effect_id, current_effect >> ]_vars

C24_Witness ==
  /\ last_step = << "deserializeState" >>
  /\ instance = "client"
  /\ next_signal_id = 1
  /\ DOMAIN snapshot.signals = { SignalKey(SigA), SignalKey(SigB) }
  /\ signals[SigA].value = snapshot.signals[SignalKey(SigA)]
  /\ Idle
  /\ next_effect_id = 1 /\ Subscribed(0, SigA)
  /\ lastRead[0] = {SigA}

\* the stores a fresh instance can hold once it has created signals ids
FreshStores(ids) == [ ids -> [value : Val, subscribers : { << >> }] ]

\* C25: whatever the store holds, restoring its snapshot on a fresh store
\* with the same signal ids leaves each signal with the serialized value.
C25_SignalRoundTrip ==
  \A fresh \in FreshStores(DOMAIN signals) :
    LET restored == RestoredSignals(fresh, SnapshotOf(signals, resource_cache)) IN
    /\ DOMAIN restored = DOMAIN signals
    /\ \A id \in DOMAIN signals : restored[id].value = signals[id].value

C25_Witness ==
  /\ instance = "client"
  /\ last_step = << "deserializeState" >>
  /\ next_signal_id = 2
  /\ DOMAIN snapshot.signals = { SignalKey(SigA), SignalKey(SigB) }
  /\ snapshot.signals[SignalKey(SigA)] # snapshot.signals[SignalKey(SigB)]
  /\ \A id \in DOMAIN signals : signals[id].value = snapshot.signals[SignalKey(id)]

\* C26: once a fresh instance has run deserializeState on a snapshot, every
\* resource key of the snapshot has an entry in the cache with the snapshot's
\* data and loading flag, and without an error.
C26_ResourceRoundTrip ==
  (instance = "client" /\ last_step = << "deserializeState" >>) =>
    \A key \in DOMAIN snapshot.resources :
      /\ key \in DOMAIN resource_cache
      /\ resource_cache[key].data = snapshot.resources[key].data
      /\ resource_cache[key].loading = snapshot.resources[key].loading
      /\ resource_cache[key].error = None

\* ------------------------------------------------------------------ islands
\* mark_island: the attributes of the document afterwards
MarkIslandDom(d, e, id) ==
  [d EXCEPT ![e].island = id, ![e].hydrate = "pending"]

\* mark_hydrated
MarkHydratedDom(d, e) == [d EXCEPT ![e].hydrate = "complete"]

NeedsHydrationResult_unmarked(d, e) == d[e].hydrate # "complete"

\* needs_hydration: get_attribute("data-hydrate").map(|v| v == "pending")
\* .unwrap_or(false)
NeedsHydrationResult(d, e) ==
  IF d[e].hydrate = NoAttr THEN FALSE ELSE d[e].hydrate = "pending"

\* get_islands_to_hydrate: querySelectorAll("[data-hydrate='pending']"), in
\* document order
PendingIslands(d) == SelectSeq(Document, LAMBDA e : d[e].hydrate = "pending")

QueriedDom_claimed(d) ==
  [ e \in DOMAIN d |->
      IF d[e].hydrate = "pending" THEN [d[e] EXCEPT !.hydrate = "claimed"]
      ELSE d[e] ]

\* get_islands_to_hydrate: the attributes of the document afterwards (the
\* query reads them only)
QueriedDom(d) == d

\* hydrate_root: every island get_islands_to_hydrate returns is marked
\* hydrated, and the container is marked
RECURSIVE MarkAllHydrated(_, _)
MarkAllHydrated(d, islands) ==
  IF islands = << >> THEN d
  ELSE MarkAllHydrated(MarkHydratedDom(d, Head(islands)), Tail(islands))

HydrateRootDom(d, container) ==
  IF container \notin DOMAIN d THEN d
  ELSE LET marked == [d EXCEPT ![container].hydrated = "true"] IN
       MarkAllHydrated(marked, PendingIslands(marked))

\* what a step of the island helpers leaves alone
IslandFrame ==
  UNCHANGED << rvars, resource_cache, tasks, cache_ret, hvars, bvars, mvars >>

\* markIsland(element, island_id)
MarkIsland(e, id) ==
  /\ dom' = MarkIslandDom(dom, e, id)
  /\ island_ret' = NoResult
  /\ last_step' = << "markIsland", e >>
  /\ UNCHANGED << scans, hydrations >>
  /\ IslandFrame

\* needsHydration(element)
NeedsHydration(e) ==
  /\ island_ret' = << NeedsHydrationResult(dom, e) >>
  /\ last_step' = << "needsHydration", e >>
  /\ UNCHANGED << dom, scans, hydrations >>
  /\ IslandFrame

\* markHydrated(element), called by application code outside a scan
MarkHydrated(e) ==
  /\ dom' = MarkHydratedDom(dom, e)
  /\ island_ret' = NoResult
  /\ last_step' = << "markHydrated", e >>
  /\ UNCHANGED << scans, hydrations >>
  /\ IslandFrame

\* hydrateRoot(container_id)
HydrateRoot(container) ==
  /\ dom' = HydrateRootDom(dom, container)
  /\ island_ret' = NoResult
  /\ last_step' = << "hydrateRoot", container >>
  /\ UNCHANGED << scans, hydrations >>
  /\ IslandFrame

\* a scan calls getIslandsToHydrate() and keeps the array
ScanQuery(p) ==
  /\ scans[p] = << >>
  /\ scans' = [scans EXCEPT ![p] = PendingIslands(dom)]
  /\ dom' = QueriedDom(dom)
  /\ island_ret' = NoResult
  /\ last_step' = << "getIslandsToHydrate", p >>
  /\ UNCHANGED hydrations
  /\ IslandFrame

\* a scan hydrates the next island of its array and calls markHydrated on it
ScanHydrate(p) ==
  /\ scans[p] # << >>
  /\ hydrations[Head(scans[p])] < MaxHydrations
  /\ hydrations' = [hydrations EXCEPT ![Head(scans[p])] = @ + 1]
  /\ dom' = MarkHydratedDom(dom, Head(scans[p]))
  /\ scans' = [scans EXCEPT ![p] = Tail(@)]
  /\ island_ret' = NoResult
  /\ last_step' = << "hydrated", p, Head(scans[p]) >>
  /\ IslandFrame

IslandsNext ==
  \/ \E e \in Elements : \E id \in IslandIds : MarkIsland(e, id)
  \/ \E e \in Elements : NeedsHydration(e)
  \/ \E e \in Elements : MarkHydrated(e)
  \/ \E container \in ContainerIds : HydrateRoot(container)
  \/ \E p \in Scanners : ScanQuery(p)
  \/ \E p \in Scanners : ScanHydrate(p)

SpecIslands == Init /\ [][IslandsNext]_vars

IslandsTypeOK ==
  /\ \A e \in Elements : /\ dom[e].hydrate \in {NoAttr, "pending", "complete"}
                         /\ hydrations[e] \in 0..MaxHydrations
  /\ \A p \in Scanners : Len(scans[p]) <= Len(Document)

\* the elements of an array
Members(seq) == { seq[n] : n \in 1..Len(seq) }

\* the regions that are pending
Pending == { e \in Elements : dom[e].hydrate = "pending" }

\* C27: markIsland puts the region in pending and markHydrated in complete;
\* needsHydration answers true exactly for a pending region (false for one
\* never marked and for one marked hydrated); getIslandsToHydrate returns
\* exactly the pending regions, each once.
C27_IslandLifecycle ==
  [][ /\ \A e \in Elements :
           /\ \A id \in IslandIds :
                MarkIsland(e, id) => dom'[e].hydrate = "pending"
           /\ MarkHydrated(e) => dom'[e].hydrate = "complete"
           /\ NeedsHydration(e) => island_ret' = << e \in Pending >>
      /\ \A p \in Scanners :
           ScanQuery(p) => /\ Members(scans'[p]) = Pending
                           /\ Len(scans'[p]) = Cardinality(Pending) ]_vars

C27_Witness ==
  \E e \in Elements, other \in Elements, p \in Scanners :
    /\ last_step = << "needsHydration", e >>
    /\ island_ret = << FALSE >>
    /\ dom[e].island \in IslandIds
    /\ dom[e].hydrate = "complete"
    /\ dom[other].hydrate = "pending"
    /\ scans[p] = << other >>

\* C28: getIslandsToHydrate hands every pending region to whichever scan
\* asks, also one another scan already holds and has not marked yet, and
\* changes nothing; a scan hydrates the regions of its array whatever their
\* state has become.  A region two scans matched is hydrated by both.
C28_ScansNotExclusive ==
  [][ \A p \in Scanners :
        /\ ScanQuery(p) =>
             /\ dom' = dom
             /\ \A q \in Scanners \ {p} :
                  Members(scans[q]) \cap Pending \subseteq Members(scans'[p])
        /\ (ScanHydrate(p) /\ dom[Head(scans[p])].hydrate = "complete") =>
             hydrations'[Head(scans[p])] = hydrations[Head(scans[p])] + 1 ]_vars

C28_Witness ==
  \E e \in Elements :
    /\ last_step = << "hydrated", "scan1", e >>
    /\ hydrations[e] = 1
    /\ dom[e].hydrate = "complete"
    /\ scans["scan2"] # << >> /\ Head(scans["scan2"]) = e

\* ------------------------------------------------------------ error boundary
\* what a handler registered through onError does when it is called: return,
\* throw, or call onError itself
HandlerKinds == {"plain", "throwing", "registering"}

\* the values a failing component throws
Errors == {400, 401}

\* what component() and fallback() return when they succeed
RenderedUI == 300
FallbackUI == 301

\* what fallback() throws when it fails
FallbackError == 402

\* a value that leaves the guarded call as an exception
Thrown(e) == 500 + e

\* the outcomes of call0 on a component: Ok(result) or Err(error)
ComponentOutcomes == { << "ok", RenderedUI >> } \cup { << "err", e >> : e \in Errors }

\* the outcomes of call0 on a fallback
FallbackOutcomes == {"ok", "throws"}

\* ERROR_BOUNDARY_HANDLERS.borrow_mut() succeeds only on a free RefCell
RegistryCanBorrowMut == handlers_borrow = "free"

FallbackResult_propagated(f) ==
  IF f = "ok" THEN FallbackUI ELSE Thrown(FallbackError)

\* fallback_clone.call0(&JsValue::NULL).unwrap_or(JsValue::NULL)
FallbackResult(f) == IF f = "ok" THEN FallbackUI ELSE Null

\* the calls `for handler in handlers.borrow().iter()` makes when it runs to
\* its end: one per registered handler, in order, each with the error
FanOut(hs, error) == [ n \in 1..Len(hs) |-> << n, error >> ]

\* what a step of the error boundary layer leaves alone
BoundaryFrame ==
  UNCHANGED << next_signal_id, next_effect_id, signals, effects,
               current_effect, runtime_borrow, stack, ret, lastRead,
               overwritten, resource_cache, tasks, cache_ret, hvars, ivars,
               mvars >>

\* onError(handler), called by application code while no guarded call runs
OnError(h) ==
  /\ boundary = NoCall /\ ~panicked
  /\ Len(handlers) < MaxHandlers
  /\ IF RegistryCanBorrowMut
       THEN /\ handlers' = Append(handlers, h)
            /\ UNCHANGED panicked
       ELSE /\ panicked' = TRUE
            /\ UNCHANGED handlers
  /\ last_step' = << "onError", h >>
  /\ UNCHANGED << handlers_borrow, boundary, handled, boundary_ret, console >>
  /\ BoundaryFrame

\* the closure returned by createErrorBoundary(component, fallback) is
\* called: up to the match on component.call0(); on Err the error is logged
\* and the registry is borrowed for the fan-out
InvokeBoundary(c, f) ==
  /\ boundary = NoCall /\ ~panicked
  /\ handled' = << >>
  /\ IF c[1] = "ok"
       THEN /\ boundary_ret' = c[2]
            /\ last_step' = << "boundary", "returned" >>
            /\ UNCHANGED << boundary, handlers_borrow, console >>
       ELSE /\ console' = c[2]
            /\ handlers_borrow' = "shared"
            /\ boundary' = << f, c[2], 1 >>
            /\ boundary_ret' = Undefined
            /\ last_step' = << "boundary", "caught" >>
  /\ UNCHANGED << handlers, panicked >>
  /\ BoundaryFrame

\* one iteration of the fan-out: handler.call1(&NULL, &error), its result
\* dropped.  A handler that calls onError meets the registry still borrowed
\* by the loop: borrow_mut panics and the guarded call is aborted.
HandlerCall ==
  /\ boundary # NoCall /\ ~panicked
  /\ boundary[3] <= Len(handlers)
  /\ handled' = Append(handled, << boundary[3], boundary[2] >>)
  /\ IF handlers[boundary[3]] = "registering"
       THEN IF RegistryCanBorrowMut
              THEN /\ handlers' = Append(handlers, "plain")
                   /\ boundary' = [boundary EXCEPT ![3] = @ + 1]
                   /\ UNCHANGED panicked
              ELSE /\ panicked' = TRUE
                   /\ UNCHANGED << handlers, boundary >>
       ELSE /\ boundary' = [boundary EXCEPT ![3] = @ + 1]
            /\ UNCHANGED << handlers, panicked >>
  /\ last_step' = << "boundary", "handler" >>
  /\ UNCHANGED << handlers_borrow, boundary_ret, console >>
  /\ BoundaryFrame

\* the fan-out is over: the borrow ends, fallback.call0() is made and the
\* closure returns
FallbackCall ==
  /\ boundary # NoCall /\ ~panicked
  /\ boundary[3] > Len(handlers)
  /\ handlers_borrow' = "free"
  /\ boundary_ret' = FallbackResult(boundary[1])
  /\ boundary' = NoCall
  /\ last_step' = << "boundary", "fallback", boundary[1] >>
  /\ UNCHANGED << handlers, handled, panicked, console >>
  /\ BoundaryFrame

BoundaryNext ==
  \/ \E h \in HandlerKinds : OnError(h)
  \/ \E c \in ComponentOutcomes : \E f \in FallbackOutcomes :
       InvokeBoundary(c, f)
  \/ HandlerCall
  \/ FallbackCall

SpecBoundary == Init /\ [][BoundaryNext]_vars

BoundaryTypeOK ==
  /\ Len(handlers) <= MaxHandlers
  /\ \A n \in 1..Len(handlers) : handlers[n] \in HandlerKinds
  /\ handlers_borrow \in {"free", "shared"}
  /\ (handlers_borrow = "shared") <=> (boundary # NoCall)
  /\ boundary_ret \in {Undefined, Null, RenderedUI, FallbackUI}
  /\ Len(handled) <= Len(handlers)

\* C29: when the component fails, every registered handler is called once,
\* in registration order, with the error (each call of the fan-out goes on
\* to the next handler), and the guarded call then returns the fallback's
\* result.
C29_HandlersThenFallback ==
  [][ /\ HandlerCall =>
           /\ ~panicked'
           /\ boundary' = [boundary EXCEPT ![3] = @ + 1]
      /\ FallbackCall =>
           /\ handled' = FanOut(handlers, boundary[2])
           /\ boundary[1] = "ok" => boundary_ret' = FallbackUI ]_vars

\* C30 as stated: a failure of the fallback leaves the guarded call as an
\* exception.
C30_FallbackFailurePropagates ==
  [][ (FallbackCall /\ boundary[1] = "throws") =>
        boundary_ret' = Thrown(FallbackError) ]_vars

\* C30: when the component and the fallback both fail, the guarded call
\* returns null; the fallback's failure is swallowed and nothing is thrown.
C30_FallbackFailureSwallowed ==
  [][ (FallbackCall /\ boundary[1] = "throws") =>
        /\ boundary_ret' = Null
        /\ ~panicked'
        /\ boundary' = NoCall ]_vars

C30_Witness ==
  /\ last_step = << "boundary", "fallback", "throws" >>
  /\ boundary_ret = Null
  /\ handlers # << >>
  /\ handled = FanOut(handlers, console)

\* ------------------------------------------------------------------ metrics
\* the keys of an application that uses two resources
TwoKeys == {"a", "b"}

MetricsOf_settled(sigs, effs, cache) ==
  << Cardinality(DOMAIN sigs), Cardinality(DOMAIN effs),
     Cardinality({ k \in DOMAIN cache : ~cache[k].loading }) >>

\* get_metrics: signalCount, effectCount and resourceCount are the len() of
\* the three maps
MetricsOf(sigs, effs, cache) ==
  << Cardinality(DOMAIN sigs), Cardinality(DOMAIN effs),
     Cardinality(DOMAIN cache) >>

\* getMetrics(), callable at any point, also from inside an effect body
\* (RUNTIME is not borrowed while a body runs, and get_metrics only borrows
\* immutably)
GetMetrics ==
  /\ ~panicked
  /\ metrics' = MetricsOf(signals, effects, resource_cache)
  /\ last_step' = << "getMetrics" >>
  /\ UNCHANGED << rvars, resource_cache, tasks, cache_ret, hvars, ivars, bvars >>

\* An application that creates signals, effects reading the first signal and
\* two resources, and inspects the counts.
MetricsNext ==
  \/ \E v \in Val : v = 0 /\ CreateSignal(v)
  \/ \E b \in BodyIds : Bodies[b] = ReaderBody /\ CreateEffectTop(b)
  \/ BodyGet
  \/ RunEffectExit
  \/ \E key \in TwoKeys : \E fetcher \in Fetchers : \E now \in Times :
       Idle /\ fetcher = 1 /\ now = 1 /\ CreateResource(key, fetcher, now)
  \/ \E key \in TwoKeys : Idle /\ InvalidateResource(key)
  \/ Idle /\ ClearResourceCache
  \/ \E i \in 1..Len(tasks) : \E now \in Times :
       Idle /\ now = 1 /\ TaskFetcherThrows(i, now)
  \/ GetMetrics

SpecMetrics == Init /\ [][MetricsNext]_vars

\* C31: getMetrics reports the number of signals created so far, the number
\* of effects created so far (the allocation counters: nothing is ever
\* removed) and the number of keys that hold a cache entry at the call.
C31_MetricsCounts ==
  /\ [](/\ Cardinality(DOMAIN signals) = next_signal_id
        /\ Cardinality(DOMAIN effects) = next_effect_id)
  /\ [][ GetMetrics =>
           metrics' = << next_signal_id, next_effect_id,
                         Cardinality({ k \in TwoKeys :
                                         k \in DOMAIN resource_cache }) >> ]_vars

C31_Witness ==
  /\ last_step = << "getMetrics" >>
  /\ metrics = << 2, 2, 1 >>
  /\ Len(tasks) = 2
  /\ ~Idle

\* ------------------------------------------------- nested runs and batching
\* positions of the runs in progress
RunPositions == { p \in 1..Depth : stack[p].kind = "run" }

\* the innermost run in progress
InnermostRun == stack[CHOOSE p \in RunPositions : \A q \in RunPositions : q <= p]

\* C32: while a body is executing, the slot names the innermost run in
\* progress, also after a run nested inside that body has finished.
C32_SlotNamesInnermostRun ==
  (~panicked /\ RunPositions # {}) => current_effect = InnermostRun.id

\* An application whose effects read twice, write, or create effects while
\* an enclosing cycle runs.
ShapesNext ==
  \/ \E v \in Val : CreateSignal(v)
  \/ \E id \in SignalIds : GetTop(id)
  \/ \E id \in SignalIds, v \in Val : SetTop(id, v)
  \/ \E b \in ShapeBodyIds : CreateEffectTop(b)
  \/ Notify
  \/ SetReturn
  \/ BodyGet
  \/ BodySet
  \/ BodySkip
  \/ BodyCreate
  \/ RunEffectExit

SpecShapes == Init /\ [][ShapesNext]_vars

\* how many times x occurs in a list
Occurrences(seq, x) == Cardinality({ k \in 1..Len(seq) : seq[k] = x })

\* C33: in every state, in the middle of nested runs too, e is in s's
\* subscriber list exactly when s is in e's dependency list, and neither
\* list holds an entry twice.
C33_EdgesSymmetric ==
  \A e \in EffectIds : \A s \in SignalIds :
    /\ Contains(signals[s].subscribers, e) <=> Contains(effects[e].dependencies, s)
    /\ Occurrences(signals[s].subscribers, e) <= 1
    /\ Occurrences(effects[e].dependencies, s) <= 1

C33_Witness ==
  /\ Depth >= 3
  /\ Top.kind = "run" /\ Bodies[effects[Top.id].func] = TwiceBody
  /\ Top.pc = 3
  /\ signals[SigA].subscribers = << Top.id >>
  /\ effects[Top.id].dependencies = << SigA >>
  /\ \E e \in EffectIds : e # Top.id /\ Running(e)
                          /\ effects[e].dependencies = << SigB >>

IsReadBoth(e) == Bodies[effects[e].func] = ReadBothBody
IsGuardedPing(e) == Bodies[effects[e].func] = GuardedPingBody

\* C34: every write captures and runs its own subscribers: a write made
\* while an enclosing cycle is in progress captures every subscriber of its
\* signal, also one the enclosing cycle has captured or already run; each
\* captured effect is run at once, inside the write's own loop, and once per
\* write.  An effect captured by several writes of one top-level set is run
\* by each of them.
C34_WritesNotBatched ==
  [][ /\ (SetEntered /\ ~Idle) =>
           stack'[Depth + 1].subs = signals[stack'[Depth + 1].id].subscribers
      /\ (Notify /\ ~panicked') =>
           /\ Len(stack') = Depth + 1
           /\ stack'[Depth + 1] = RunFrame(NextSubscriber(Top))
      /\ SetReturned =>
           \A e \in EffectIds :
             Occurrences(Top.ran, e) = Occurrences(Top.subs, e) ]_vars

C34_Witness ==
  \E e \in EffectIds, f \in EffectIds :
    /\ IsReadBoth(e) /\ IsGuardedPing(f)
    /\ Depth = 4
    /\ stack[1].kind = "set" /\ stack[1].id = SigA /\ stack[1].ran = << e, f >>
    /\ stack[2].kind = "run" /\ stack[2].id = f
    /\ stack[3].kind = "set" /\ stack[3].id = SigB /\ stack[3].ran = << e >>
    /\ stack[4].kind = "run" /\ stack[4].id = e /\ stack[4].pc = 3
    /\ stack[4].acc = stack[1].v
    /\ signals[SigA].value = stack[1].v

ReadersNext ==
  \/ \E v \in Val : CreateSignal(v)
  \/ \E id \in SignalIds : GetTop(id)
  \/ \E id \in SignalIds, v \in Val : SetTop(id, v)
  \/ \E b \in ReadOnlyBodyIds : CreateEffectTop(b)
  \/ Notify
  \/ SetReturn
  \/ BodyGet
  \/ BodySkip
  \/ BodyThrow
  \/ RunEffectExit

\* a step of the call in progress: set and run_effect are synchronous, so a
\* call that has been entered keeps executing until it returns
CallStep ==
  \/ Notify
  \/ SetReturn
  \/ BodyGet
  \/ BodySkip
  \/ BodyThrow
  \/ RunEffectExit

SpecReaders == Init /\ [][ReadersNext]_vars /\ WF_vars(CallStep)

\* C36: with bodies that neither write nor create, a set captures as many
\* effects as the signal has subscribers, runs exactly that many bodies, one
\* at a time and never nested, and returns with the slot empty; every call in
\* progress comes to its end.
C36_SetTerminates ==
  /\ [](Depth <= 2)
  /\ [][ /\ SetEntered =>
              Len(stack'[Depth + 1].subs) =
                Len(signals[stack'[Depth + 1].id].subscribers)
         /\ SetReturned =>
              /\ Len(Top.ran) = Len(Top.subs)
              /\ current_effect' = None
              /\ Idle' ]_vars
  /\ (~Idle) ~> Idle

C36_Witness ==
  /\ Depth = 1 /\ Top.kind = "set"
  /\ Top.i > Len(Top.subs)
  /\ Len(Top.ran) = 2
  /\ current_effect = None

\* ------------------------------------------------- fetch tasks and entries
\* the spawned futures that have not called their fetcher yet
NotYetCalled(tsks, key) ==
  { i \in 1..Len(tsks) : tsks[i].key = key /\ tsks[i].stage = "spawned" }

\* a step that creates the entry of key: a miss of createResource, or a
\* refetchResource that finds a retained fetcher
CreatesEntry(key) ==
  \/ /\ key \notin DOMAIN resource_cache
     /\ \E fetcher \in Fetchers : \E now \in Times :
          CreateResource(key, fetcher, now)
  \/ /\ RefetchFetcher(resource_cache, key) # None
     /\ \E now \in Times : RefetchResource(key, now)

\* a step in which the fetcher of a spawned future for key is invoked: it
\* returns a promise or throws
InvokesFetcher(key) ==
  /\ tasks' # tasks
  /\ \E fetcher \in Fetchers :
       last_step' \in { << "called", key, fetcher >>, << "threw", key, fetcher >> }

\* C37: a step spawns a fetch exactly when it creates a cache entry, and
\* then exactly one, for that key; a spawned fetch leaves the not-yet-called
\* ones only by having its fetcher invoked, once (so invocations never
\* outnumber creations); and a spawned fetch can always go on to call its
\* fetcher, also when its entry has been invalidated in the meantime.
C37_OneFetchPerEntry ==
  /\ [][ \A key \in Keys :
           /\ CreatesEntry(key) =>
                /\ Len(tasks') = Len(tasks) + 1
                /\ tasks'[Len(tasks')].key = key
                /\ tasks'[Len(tasks')].stage = "spawned"
                /\ key \in DOMAIN resource_cache'
                /\ resource_cache'[key].loading
           /\ Len(tasks') > Len(tasks) => \E k \in Keys : CreatesEntry(k)
           /\ InvokesFetcher(key) =>
                Cardinality(NotYetCalled(tasks', key)) =
                  Cardinality(NotYetCalled(tasks, key)) - 1
           /\ Cardinality(NotYetCalled(tasks', key)) <
                Cardinality(NotYetCalled(tasks, key)) => InvokesFetcher(key) ]_vars
  /\ [](\A i \in 1..Len(tasks) :
          FirstSpawned(i) =>
            ENABLED (TaskCallFetcher(i) /\ InvokesFetcher(tasks[i].key)))

C37_Witness ==
  \E key \in Keys : \E fetcher \in Fetchers :
    /\ last_step = << "called", key, fetcher >>
    /\ key \notin DOMAIN resource_cache
    /\ \E i \in 1..Len(tasks) : tasks[i].key = key /\ tasks[i].stage = "awaiting"

\* ------------------------------------------------------ two resource keys
\* An application that uses two resources and sets optimistic values.
TwoKeysNext ==
  \/ \E key \in TwoKeys : \E fetcher \in Fetchers : \E now \in Times :
       now = 1 /\ CreateResource(key, fetcher, now)
  \/ \E key \in TwoKeys : InvalidateResource(key)
  \/ \E key \in TwoKeys : \E value \in OptimisticValues :
       SetResourceOptimistic(key, value)
  \/ \E i \in 1..MaxTasks : TaskCallFetcher(i)
  \/ \E i \in 1..MaxTasks : \E now \in Times : now = 2 /\ TaskFetcherThrows(i, now)
  \/ \E i \in 1..MaxTasks : \E now \in Times : now = 2 /\ TaskResolve(i, now)
  \/ \E i \in 1..MaxTasks : \E now \in Times : now = 2 /\ TaskReject(i, now)

SpecTwoKeys == Init /\ [][TwoKeysNext]_vars

\* the entries a cache holds under keys other than key
OtherEntries(cache, key) == [ k \in (DOMAIN cache) \ {key} |-> cache[k] ]

\* C38: a completion leaves the set of keys and every entry under another
\* key as they were, and the retained fetcher of its own entry too; on
\* success the entry under its key gets the result as data (whatever was
\* there, an optimistic value included), loading = false and no error; on
\* failure it gets loading = false and the message, and keeps its data.
C38_CompletionFrame ==
  [][ \A i \in 1..Len(tasks) : \A now \in Times :
        LET key == tasks[i].key
            fetcher == tasks[i].fetcher
        IN /\ (TaskResolve(i, now) \/ Fails(i, now)) =>
                /\ DOMAIN resource_cache' = DOMAIN resource_cache
                /\ OtherEntries(resource_cache', key) = OtherEntries(resource_cache, key)
                /\ key \in DOMAIN resource_cache =>
                     resource_cache'[key].refetch_fn = resource_cache[key].refetch_fn
           /\ (TaskResolve(i, now) /\ key \in DOMAIN resource_cache) =>
                /\ resource_cache'[key].data = FetchData(fetcher)
                /\ ~resource_cache'[key].loading
                /\ resource_cache'[key].error = None
           /\ (Fails(i, now) /\ key \in DOMAIN resource_cache) =>
                /\ resource_cache'[key].data = resource_cache[key].data
                /\ ~resource_cache'[key].loading
                /\ resource_cache'[key].error = ErrMsg(fetcher) ]_vars

C38_Witness ==
  \E key \in TwoKeys, other \in TwoKeys, fetcher \in Fetchers :
    /\ other # key
    /\ last_step = << "rejected", key, fetcher >>
    /\ key \in DOMAIN resource_cache
    /\ resource_cache[key].data \in OptimisticValues
    /\ resource_cache[key].error = ErrMsg(fetcher)
    /\ ~resource_cache[key].loading
    /\ other \in DOMAIN resource_cache
    /\ resource_cache[other].loading
    /\ resource_cache[other].data \in OptimisticValues

\* ------------------------------------------------------ fetches complete
\* the future at position i of the queue makes its next step: it calls the
\* fetcher, or the promise it awaits settles
TaskProgress(i) ==
  \/ TaskCallFetcher(i)
  \/ \E now \in Times : TaskFetcherThrows(i, now)
  \/ \E now \in Times : TaskResolve(i, now)
  \/ \E now \in Times : TaskReject(i, now)

\* the cache with an executor that polls every spawned future and with
\* fetchers whose promises all settle
SpecCacheFair ==
  Init /\ [][CacheNext]_vars /\ \A i \in 1..MaxTasks : WF_vars(TaskProgress(i))

\* key holds an entry that is loading
LoadingEntry(key) ==
  key \in DOMAIN resource_cache /\ resource_cache[key].loading

\* C39: when every dispatched fetch completes, a loading entry does not stay
\* loading forever: it becomes non-loading, or it is removed (by invalidate
\* or clear, or by a refetch, which puts a new entry in its place).
C39_LoadingEnds ==
  \A key \in Keys :
    LoadingEntry(key) ~>
      \/ key \notin DOMAIN resource_cache
      \/ ~resource_cache[key].loading
      \/ last_step = << "refetchResource", key >>

C39_Witness ==
  \E key \in Keys, fetcher \in Fetchers :
    /\ last_step \in { << "resolved", key, fetcher >>, << "rejected", key, fetcher >> }
    /\ key \in DOMAIN resource_cache
    /\ ~resource_cache[key].loading
    /\ resource_cache[key].refetch_fn # fetcher
    /\ tasks # << >>

\* C40: the registry is not borrowed while a guarded call runs the
\* handlers; a handler that calls onError during the fan-out registers its
\* handler without a borrow conflict and the fan-out goes on.
C40_RegistryFreeDuringFanOut ==
  /\ [](boundary # NoCall => handlers_borrow = "free")
  /\ [][ (HandlerCall /\ handlers[boundary[3]] = "registering") =>
           /\ ~panicked'
           /\ Len(handlers') = Len(handlers) + 1
           /\ boundary'[3] = boundary[3] + 1 ]_vars

====
